---- MODULE Spec2Model ----
(***************************************************************************)
(* Run pipeline of the synthetic dataset platform: the run directory, the  *)
(* finalizer (engine/artifacts.py), the registry updater                   *)
(* (engine/registry.py), the data writers (engine/generate.py,             *)
(* engine/ingest.py) and the orchestrator (scripts/run.py).                *)
(*                                                                         *)
(* A file is a sequence of tokens.  json.dump produces the tokens of a     *)
(* document, json.load parses them back and fails on a sequence that is    *)
(* not a complete document.  A process writes a file through a descriptor  *)
(* that follows the file when it is renamed, as an open file does.         *)
(***************************************************************************)
EXTENDS Integers, Sequences, FiniteSets, TLC

VARIABLES
    fs,     \* path -> content, for the files that exist
    dirs,   \* the run directories that exist
    now,    \* the UTC clock, in seconds
    proc,   \* per process: the engine call in progress
    orch    \* per process: the orchestrator run in progress

vars == <<fs, dirs, now, proc, orch>>

---------------------------------------------------------------------------
(* Bounds of the model *)

\* timestamps are drawn from 0..MaxClock
MaxClock == 1
\* tokens handed to the file by one write() of the buffered writer
ChunkLen == 3
\* version records a registry entry holds before the calls of the model
MaxInitVersions == 1

---------------------------------------------------------------------------
(* Names *)

Procs == {1, 2}

Datasets == {"d1", "d2"}
\* sorted(...) order of the dataset names (sort_keys=True)
DatasetOrder == <<"d1", "d2">>

Versions == {"v1", "v2"}
\* string order of the version identifiers: "v1" < "v2"
VersionRank(v) == IF v = "v1" THEN 1 ELSE 2

\* runs/<dataset>/<version>
RunDirs == {<<"d1", "v1">>, <<"d1", "v2">>}

\* the loaded configuration objects; "cIntKey" has a non-string mapping key
Configs == {"cA", "cIntKey"}

Path(dir, name) == <<dir[1], dir[2], name>>
RegistryPath == <<"registry", "", "datasets.json">>
NoFile == <<"", "", "">>
Orphan == <<"", "", "orphan">>

final_metadata_path(run_dir) == Path(run_dir, "final_metadata.json")

required_artifacts ==
    {"configs_snapshot.json", "run_metadata.json",
     "validation_report.json", "evaluation_report.json"}

\* os.path.basename(os.path.normpath(run_dir))
basename(run_dir) == run_dir[2]

---------------------------------------------------------------------------
(* The file system *)

exists(path) == path \in DOMAIN fs

\* the observable state of a path: {} when absent, {content} when present
Cur(f, path) == IF path \in DOMAIN f THEN {f[path]} ELSE {}

WriteFile(f, path, content) ==
    [q \in DOMAIN f \cup {path} |-> IF q = path THEN content ELSE f[q]]

RemoveFile(f, path) == [q \in DOMAIN f \ {path} |-> f[q]]

\* os.replace(src, dst): dst becomes the file src named, src is gone
os_replace(f, src, dst) ==
    IF src = dst THEN f
    ELSE [q \in (DOMAIN f \ {src}) \cup {dst} |->
            IF q = dst THEN f[src] ELSE f[q]]

\* Path.with_suffix(".tmp"), written directly to the target (no temp file)
with_suffix_tmp_in_place(path) == path

\* Path.with_suffix(".tmp")
with_suffix_tmp(path) ==
    <<path[1], path[2],
      CASE path[3] = "final_metadata.json" -> "final_metadata.tmp"
        [] path[3] = "datasets.json" -> "datasets.tmp"
        [] path[3] = "data.parquet" -> "data.tmp"
        [] path[3] = "data.csv" -> "data.tmp"
        [] OTHER -> "other.tmp">>

\* any(run_dir.iterdir())
DirFiles(f, run_dir) ==
    {q \in DOMAIN f : q[1] = run_dir[1] /\ q[2] = run_dir[2]}

---------------------------------------------------------------------------
(* JSON documents as token sequences *)

Hole == <<"\\0">>

\* a complete document: braces around key-value tokens
IsJson(c) ==
    /\ Len(c) >= 2
    /\ c[1] = <<"{">>
    /\ c[Len(c)] = <<"}">>
    /\ \A i \in 2..(Len(c) - 1) : Len(c[i]) = 2

HasKey(c, key) == \E i \in 2..(Len(c) - 1) : c[i][1] = key

\* dict.get(key) of a parsed document that has the key (the last one wins)
Get(c, key) ==
    LET I == {i \in 2..(Len(c) - 1) : c[i][1] = key}
    IN  c[CHOOSE i \in I : \A j \in I : j <= i][2]

\* json.dump(manifest, indent=2, sort_keys=True)
dump_manifest(m) ==
    << <<"{">>,
       <<"artifacts", m.artifacts>>,
       <<"dataset", m.dataset>>,
       <<"finalized_at_utc", m.finalized_at_utc>>,
       <<"run_dir", m.run_dir>>,
       <<"}">> >>

\* the tokens of one registry entry, keys sorted
EntryTokens(d, e) ==
    << <<"entry", d>>, <<"latest_version", e.latest_version>> >>
    \o (IF e.has_versions THEN << <<"versions", e.versions>> >> ELSE <<>>)

RECURSIVE DumpEntries(_, _)
DumpEntries(reg, i) ==
    IF i > Len(DatasetOrder) THEN <<>>
    ELSE (IF DatasetOrder[i] \in DOMAIN reg
          THEN EntryTokens(DatasetOrder[i], reg[DatasetOrder[i]])
          ELSE <<>>) \o DumpEntries(reg, i + 1)

\* json.dump(registry, indent=2, sort_keys=True, ensure_ascii=False)
dump_registry(reg) == << <<"{">> >> \o DumpEntries(reg, 1) \o << <<"}">> >>

\* the entry tokens of a registry document run from an "entry" token to the
\* next one
EntryStart(c, d) ==
    LET I == {i \in 2..(Len(c) - 1) : c[i] = <<"entry", d>>}
    IN  CHOOSE i \in I : \A j \in I : j <= i

EntryEnd(c, i) ==
    LET J == {j \in (i + 1)..(Len(c) - 1) : c[j][1] = "entry"}
    IN  IF J = {} THEN Len(c) ELSE CHOOSE j \in J : \A k \in J : j <= k

EntryField(c, d, key) ==
    LET i == EntryStart(c, d)
    IN  {c[j][2] : j \in {k \in (i + 1)..(EntryEnd(c, i) - 1) : c[k][1] = key}}

\* registry.get("datasets") of _load_json(reg_p), for a complete document
load_registry(c) ==
    [d \in {c[i][2] : i \in {j \in 2..(Len(c) - 1) : c[j][1] = "entry"}} |->
        [latest_version |->
            IF EntryField(c, d, "latest_version") = {} THEN "none"
            ELSE CHOOSE v \in EntryField(c, d, "latest_version") : TRUE,
         has_versions |-> EntryField(c, d, "versions") # {},
         versions |->
            IF EntryField(c, d, "versions") = {} THEN <<>>
            ELSE CHOOSE v \in EntryField(c, d, "versions") : TRUE]]

\* json.dump then json.load of a configuration object: a mapping key that is
\* not a string comes back as a string
JsonOf(c) == IF c = "cIntKey" THEN "cStrKey" ELSE c

dump_configs(c) == << <<"{">>, <<"configs", JsonOf(c)>>, <<"}">> >>

---------------------------------------------------------------------------
(* Processes: one engine call at a time, step by step *)

NoManifest ==
    [artifacts |-> "", dataset |-> "", finalized_at_utc |-> 0,
     run_dir |-> <<"", "">>]

IdleProc ==
    [pc |-> "idle", op |-> "none", configs |-> "", run_dir |-> <<"", "">>,
     target |-> NoFile, manifest |-> NoManifest, payload |-> <<>>,
     fd |-> NoFile, off |-> 0, result |-> "none", faulted |-> FALSE]

CanCall(p) == proc[p].pc \in {"idle", "done"} /\ orch[p].stage = "none"

\* the record of a call that starts
NewCall(op, configs, run_dir, target) ==
    [IdleProc EXCEPT !.pc = "open", !.op = op, !.configs = configs,
                     !.run_dir = run_dir, !.target = target]

\* the call ends with an exception
Raised(pr) == [pr EXCEPT !.pc = "done", !.result = "raised", !.fd = NoFile]

\* the call returns
Returned(pr) == [pr EXCEPT !.pc = "done", !.result = "ok", !.fd = NoFile]

\* a call that ran from start to end in one step
Completed(op, configs, run_dir, ok) ==
    IF ok THEN Returned(NewCall(op, configs, run_dir, NoFile))
    ELSE Raised(NewCall(op, configs, run_dir, NoFile))

---------------------------------------------------------------------------
(* engine/artifacts.py: persist_artifacts *)

\* the guard that is never true: a finalizer without its one-shot guard
AlreadyFinalizedNever(f, run_dir) == FALSE

\* final_metadata_path.exists()
AlreadyFinalized(f, run_dir) == final_metadata_path(run_dir) \in DOMAIN f

has_parquet(f, run_dir) == Path(run_dir, "data.parquet") \in DOMAIN f
has_csv(f, run_dir) == Path(run_dir, "data.csv") \in DOMAIN f

\* a finalizer that does not compare the snapshot with its argument
SnapshotMismatchNever(f, run_dir, configs) == FALSE

\* json.load(configs_snapshot.json) != configs
SnapshotMismatch(f, run_dir, configs) ==
    LET c == f[Path(run_dir, "configs_snapshot.json")]
    IN  \/ ~IsJson(c)
        \/ ~HasKey(c, "configs")
        \/ Get(c, "configs") # configs

\* the checks of persist_artifacts that raise, in the order of the code
PersistRaises(f, run_dir, configs) ==
    \/ AlreadyFinalized(f, run_dir)
    \/ has_parquet(f, run_dir) /\ has_csv(f, run_dir)
    \/ ~has_parquet(f, run_dir) /\ ~has_csv(f, run_dir)
    \/ \E a \in required_artifacts : Path(run_dir, a) \notin DOMAIN f
    \/ SnapshotMismatch(f, run_dir, configs)

\* the manifest; dataset_dir is datasets/<dataset>
compose_manifest(f, dataset, run_dir, t) ==
    [artifacts |-> IF has_parquet(f, run_dir) THEN "data.parquet" ELSE "data.csv",
     dataset |-> dataset,
     finalized_at_utc |-> t,
     run_dir |-> run_dir]

\* lines 7-54 of persist_artifacts: the guard, the preconditions, the
\* manifest with the time of the clock; the write follows step by step
persist_artifacts_begin(p, configs, run_dir) ==
    IF PersistRaises(fs, run_dir, configs)
    THEN /\ proc' = [proc EXCEPT ![p] =
                       Raised(NewCall("persist_artifacts", configs, run_dir,
                                      final_metadata_path(run_dir)))]
         /\ UNCHANGED now
    ELSE \E t \in {now, now + 1} \cap (0..MaxClock) :
           LET m == compose_manifest(fs, run_dir[1], run_dir, t)
           IN  /\ now' = t
               /\ proc' = [proc EXCEPT ![p] =
                             [NewCall("persist_artifacts", configs, run_dir,
                                      final_metadata_path(run_dir))
                                EXCEPT !.manifest = m,
                                       !.payload = dump_manifest(m)]]

call_persist_artifacts(p, configs, run_dir) ==
    /\ CanCall(p)
    /\ persist_artifacts_begin(p, configs, run_dir)
    /\ UNCHANGED <<fs, dirs, orch>>

---------------------------------------------------------------------------
(* engine/registry.py: _atomic_write_json, and the same write at the end  *)
(* of persist_artifacts                                                    *)

\* the content of a file after `chunk` is written at offset `off`
Overwrite(c, off, chunk) ==
    LET n == IF Len(c) > off + Len(chunk) THEN Len(c) ELSE off + Len(chunk)
    IN  [i \in 1..n |->
            IF i > off /\ i <= off + Len(chunk) THEN chunk[i - off]
            ELSE IF i <= Len(c) THEN c[i] ELSE Hole]

\* tmp.open("w"): the file is created, or truncated where it is
atomic_open(p) ==
    /\ proc[p].pc = "open"
    /\ LET tmp == with_suffix_tmp(proc[p].target)
       IN  /\ fs' = WriteFile(fs, tmp, <<>>)
           /\ proc' = [proc EXCEPT ![p].pc = "write", ![p].fd = tmp,
                                   ![p].off = 0]
    /\ UNCHANGED <<dirs, now, orch>>

\* json.dump, f.flush(): one write() of the buffer; after the last one
\* os.fsync and the close of the with block
atomic_write(p) ==
    /\ proc[p].pc = "write"
    /\ LET pr == proc[p]
           n == IF Len(pr.payload) - pr.off < ChunkLen
                THEN Len(pr.payload) - pr.off ELSE ChunkLen
           chunk == SubSeq(pr.payload, pr.off + 1, pr.off + n)
           last == pr.off + n = Len(pr.payload)
       IN  /\ fs' = IF pr.fd \in DOMAIN fs
                    THEN WriteFile(fs, pr.fd, Overwrite(fs[pr.fd], pr.off, chunk))
                    ELSE fs
           /\ proc' = [proc EXCEPT ![p].off = pr.off + n,
                                   ![p].pc = IF last THEN "replace" ELSE "write",
                                   ![p].fd = IF last THEN NoFile ELSE pr.fd]
    /\ UNCHANGED <<dirs, now, orch>>

\* where an open descriptor's file is after os.replace(src, dst)
Follow(fd, src, dst) ==
    IF src = dst THEN fd
    ELSE IF fd = src THEN dst
    ELSE IF fd = dst THEN Orphan
    ELSE fd

\* os.replace(tmp, path); FileNotFoundError when tmp is gone
atomic_replace(p) ==
    /\ proc[p].pc = "replace"
    /\ LET tmp == with_suffix_tmp(proc[p].target)
       IN  IF tmp \notin DOMAIN fs
           THEN /\ proc' = [proc EXCEPT ![p] = Raised(@)]
                /\ UNCHANGED fs
           ELSE /\ fs' = os_replace(fs, tmp, proc[p].target)
                /\ proc' = [q \in Procs |->
                              IF q = p THEN Returned(proc[p])
                              ELSE [proc[q] EXCEPT
                                      !.fd = Follow(@, tmp, proc[p].target)]]
    /\ UNCHANGED <<dirs, now, orch>>

\* the write fails or is interrupted at this step (OSError, a signal): the
\* exception leaves the call, the temporary file stays as it is
atomic_fault(p) ==
    /\ proc[p].pc \in {"open", "write", "replace"}
    /\ proc' = [proc EXCEPT ![p] = [Raised(@) EXCEPT !.faulted = TRUE]]
    /\ UNCHANGED <<fs, dirs, now, orch>>

---------------------------------------------------------------------------
(* engine/registry.py: update_registry_from_final_metadata *)

\* no version is ever a duplicate: an updater without the duplicate check
DuplicateVersionNever(versions, version) == FALSE

\* for v in versions: if v.get("version") == version
DuplicateVersion(versions, version) ==
    \E i \in 1..Len(versions) : versions[i].version = version

\* the record is put in front of the list
PrependVersion(versions, rec) == <<rec>> \o versions

\* versions.append({...})
AppendVersion(versions, rec) == Append(versions, rec)

\* not dataset or not run_dir or not finalized_at
MissingFields(c) ==
    \/ ~HasKey(c, "dataset")
    \/ ~HasKey(c, "run_dir")
    \/ ~HasKey(c, "finalized_at_utc")

\* final_meta = _load_json(final_meta_p), the three fields
load_manifest(c) ==
    [artifacts |-> "",
     dataset |-> Get(c, "dataset"),
     finalized_at_utc |-> Get(c, "finalized_at_utc"),
     run_dir |-> Get(c, "run_dir")]

\* {"version": version, "run_dir": run_dir, "finalized_at_utc": finalized_at}
version_record(m) ==
    [version |-> basename(m.run_dir), run_dir |-> m.run_dir,
     finalized_at_utc |-> m.finalized_at_utc]

\* an append that leaves latest_version as it was
appended_registry_stale(reg, m) ==
    [reg EXCEPT ![m.dataset] =
        [latest_version |-> @.latest_version,
         has_versions |-> TRUE,
         versions |-> @.versions \o <<version_record(m)>>]]

\* the registry after the append, in memory
appended_registry(reg, m) ==
    [reg EXCEPT ![m.dataset] =
        [latest_version |-> basename(m.run_dir),
         has_versions |-> TRUE,
         versions |-> AppendVersion(reg[m.dataset].versions, version_record(m))]]

\* the checks of update_registry_from_final_metadata that raise, in the
\* order of the code
UpdateRaises(f, run_dir) ==
    LET mp == final_metadata_path(run_dir)
    IN  \/ mp \notin DOMAIN f
        \/ RegistryPath \notin DOMAIN f
        \/ ~IsJson(f[mp])
        \/ MissingFields(f[mp])
        \/ ~IsJson(f[RegistryPath])
        \/ load_manifest(f[mp]).dataset \notin DOMAIN load_registry(f[RegistryPath])
        \/ DuplicateVersion(
              load_registry(f[RegistryPath])[load_manifest(f[mp]).dataset].versions,
              basename(load_manifest(f[mp]).run_dir))

\* an updater that makes the registry file and the dataset entry it does
\* not find
update_registry_implicit(p, run_dir) ==
    LET mp == final_metadata_path(run_dir)
    IN  IF mp \notin DOMAIN fs \/ ~IsJson(fs[mp]) \/ MissingFields(fs[mp])
        THEN proc' = [proc EXCEPT ![p] =
                        Raised(NewCall("update_registry", "", run_dir, RegistryPath))]
        ELSE LET m == load_manifest(fs[mp])
                 found == IF RegistryPath \in DOMAIN fs /\ IsJson(fs[RegistryPath])
                          THEN load_registry(fs[RegistryPath]) ELSE <<>>
                 reg == IF m.dataset \in DOMAIN found THEN found
                        ELSE found @@ (m.dataset :>
                               [latest_version |-> "none", has_versions |-> FALSE,
                                versions |-> <<>>])
             IN  proc' = [proc EXCEPT ![p] =
                            [NewCall("update_registry", "", run_dir, RegistryPath)
                               EXCEPT !.manifest = m,
                                      !.payload = dump_registry(
                                         appended_registry(reg, m))]]

\* lines 31-79 of update_registry_from_final_metadata: both files are read,
\* the record is appended in memory; _atomic_write_json follows step by step
update_registry_begin(p, run_dir) ==
    IF UpdateRaises(fs, run_dir)
    THEN proc' = [proc EXCEPT ![p] =
                    Raised(NewCall("update_registry", "", run_dir, RegistryPath))]
    ELSE LET m == load_manifest(fs[final_metadata_path(run_dir)])
         IN  proc' = [proc EXCEPT ![p] =
                        [NewCall("update_registry", "", run_dir, RegistryPath)
                           EXCEPT !.manifest = m,
                                  !.payload = dump_registry(
                                     appended_registry(
                                        load_registry(fs[RegistryPath]), m))]]

call_update_registry(p, run_dir) ==
    /\ CanCall(p)
    /\ update_registry_begin(p, run_dir)
    /\ UNCHANGED <<fs, dirs, now, orch>>

---------------------------------------------------------------------------
(* The stages that write the run directory, each a whole call *)

Table(origin) == << <<"table", origin>> >>

\* scripts/run.py: snapshot_run_context
snapshot_files(f, run_dir, configs) ==
    WriteFile(
        WriteFile(f, Path(run_dir, "configs_snapshot.json"), dump_configs(configs)),
        Path(run_dir, "run_metadata.json"),
        << <<"{">>, <<"dataset", run_dir[1]>>, <<"version", run_dir[2]>>, <<"}">> >>)

snapshot_run_context(p, configs, run_dir) ==
    /\ dirs' = dirs \cup {run_dir}
    /\ fs' = snapshot_files(fs, run_dir, configs)
    /\ proc' = [proc EXCEPT ![p] =
                  Completed("snapshot_run_context", configs, run_dir, TRUE)]

call_snapshot_run_context(p, configs, run_dir) ==
    /\ CanCall(p)
    /\ snapshot_run_context(p, configs, run_dir)
    /\ UNCHANGED <<now, orch>>

\* engine/generate.py: _write_dataframe; the temporary file (mkstemp) is
\* renamed to data.parquet, or after a failed parquet write to data.csv
write_dataframe(f, run_dir, table, parquet_ok) ==
    WriteFile(f, Path(run_dir, IF parquet_ok THEN "data.parquet" ELSE "data.csv"),
              table)

\* generate_dataset returns: the configuration resolves, the run directory
\* is there for mkstemp, one of the two writes works
generate_ok(run_dir, cfg_ok, parquet_ok, csv_ok) ==
    cfg_ok /\ run_dir \in dirs /\ (parquet_ok \/ csv_ok)

\* engine/generate.py: generate_dataset
generate_dataset(p, configs, run_dir, cfg_ok, parquet_ok, csv_ok) ==
    /\ LET ok == generate_ok(run_dir, cfg_ok, parquet_ok, csv_ok)
       IN  /\ fs' = IF ok
                    THEN write_dataframe(fs, run_dir, Table("generated"), parquet_ok)
                    ELSE fs
           /\ proc' = [proc EXCEPT ![p] =
                         Completed("generate_dataset", configs, run_dir, ok)]

call_generate_dataset(p, configs, run_dir, cfg_ok, parquet_ok, csv_ok) ==
    /\ CanCall(p)
    /\ generate_dataset(p, configs, run_dir, cfg_ok, parquet_ok, csv_ok)
    /\ UNCHANGED <<dirs, now, orch>>

\* ingest_external_dataset returns: the input loads and is not empty, the
\* run directory exists and is empty, one of the two writes works
ingest_ok(f, run_dir, input_ok, parquet_ok, csv_ok) ==
    /\ input_ok
    /\ run_dir \in dirs
    /\ DirFiles(f, run_dir) = {}
    /\ (parquet_ok \/ csv_ok)

\* engine/ingest.py: ingest_external_dataset; data.tmp is renamed to
\* data.parquet, or after a failed parquet write unlinked, written again and
\* renamed to data.csv
ingest_external_dataset(p, run_dir, input_ok, parquet_ok, csv_ok) ==
    /\ LET ok == ingest_ok(fs, run_dir, input_ok, parquet_ok, csv_ok)
       IN  /\ fs' = IF ok
                    THEN write_dataframe(fs, run_dir, Table("external"), parquet_ok)
                    ELSE fs
           /\ proc' = [proc EXCEPT ![p] =
                         Completed("ingest_external_dataset", "", run_dir, ok)]

call_ingest_external_dataset(p, run_dir, input_ok, parquet_ok, csv_ok) ==
    /\ CanCall(p)
    /\ ingest_external_dataset(p, run_dir, input_ok, parquet_ok, csv_ok)
    /\ UNCHANGED <<dirs, now, orch>>

\* the data file validate_dataset and evaluate_dataset find
has_data(f, run_dir) == has_parquet(f, run_dir) \/ has_csv(f, run_dir)

validation_report == << <<"{">>, <<"status", "pass">>, <<"}">> >>

\* engine/validate.py: validate_dataset; `valid`: the data loads and passes
\* every check
validate_dataset(p, configs, run_dir, valid) ==
    /\ LET ok == has_data(fs, run_dir) /\ valid
       IN  /\ fs' = IF ok
                    THEN WriteFile(fs, Path(run_dir, "validation_report.json"),
                                   validation_report)
                    ELSE fs
           /\ proc' = [proc EXCEPT ![p] =
                         Completed("validate_dataset", configs, run_dir, ok)]

call_validate_dataset(p, configs, run_dir, valid) ==
    /\ CanCall(p)
    /\ validate_dataset(p, configs, run_dir, valid)
    /\ UNCHANGED <<dirs, now, orch>>

evaluation_report(f, run_dir) ==
    << <<"{">>,
       <<"prior_profile", Path(run_dir, "prior_profile.json") \in DOMAIN f>>,
       <<"}">> >>

\* engine/evaluate.py: evaluate_dataset; `readable`: the data loads
evaluate_dataset(p, configs, run_dir, readable) ==
    /\ LET ok == has_data(fs, run_dir) /\ readable
       IN  /\ fs' = IF ok
                    THEN WriteFile(fs, Path(run_dir, "evaluation_report.json"),
                                   evaluation_report(fs, run_dir))
                    ELSE fs
           /\ proc' = [proc EXCEPT ![p] =
                         Completed("evaluate_dataset", configs, run_dir, ok)]

call_evaluate_dataset(p, configs, run_dir, readable) ==
    /\ CanCall(p)
    /\ evaluate_dataset(p, configs, run_dir, readable)
    /\ UNCHANGED <<dirs, now, orch>>

---------------------------------------------------------------------------
(* The states the calls start from *)

VersionRecord(d, v, t) ==
    [version |-> v, run_dir |-> <<d, v>>, finalized_at_utc |-> t]

\* lists of records of distinct versions, registered in any order
InitVersionLists(d) ==
    {[i \in 1..Len(s) |-> VersionRecord(d, s[i], 0)] :
        s \in {q \in UNION {[1..k -> Versions] : k \in 0..MaxInitVersions} :
                 \A i, j \in DOMAIN q : i # j => q[i] # q[j]}}

\* a registry entry: without a "versions" key, or with a list
InitEntries(d) ==
    {[latest_version |-> "none", has_versions |-> FALSE, versions |-> <<>>]}
    \cup {[latest_version |-> IF Len(l) = 0 THEN "none" ELSE l[Len(l)].version,
           has_versions |-> TRUE, versions |-> l] : l \in InitVersionLists(d)}

\* the entry of a dataset that has no run directory in the model
PassiveEntry(d) ==
    [latest_version |-> "v1", has_versions |-> TRUE,
     versions |-> <<VersionRecord(d, "v1", 0)>>]

\* registry documents: with or without an entry for the dataset of the runs
InitRegistries ==
    {[d \in D |-> IF d = "d1" THEN e ELSE PassiveEntry(d)] :
        D \in {{"d2"}, Datasets}, e \in InitEntries("d1")}

\* a run directory as earlier stage calls left it: which files it holds
DirKind(snapshot, parquet, csv, validation, evaluation, final) ==
    [snapshot |-> snapshot, parquet |-> parquet, csv |-> csv,
     validation |-> validation, evaluation |-> evaluation, final |-> final]

PutIf(f, cond, path, content) == IF cond THEN WriteFile(f, path, content) ELSE f

PreparedDir(f, run_dir, k) ==
    LET f1 == IF k.snapshot = "none" THEN f
              ELSE snapshot_files(f, run_dir, k.snapshot)
        f2 == PutIf(f1, k.parquet, Path(run_dir, "data.parquet"), Table("generated"))
        f3 == PutIf(f2, k.csv, Path(run_dir, "data.csv"), Table("generated"))
        f4 == PutIf(f3, k.validation, Path(run_dir, "validation_report.json"),
                    validation_report)
        f5 == PutIf(f4, k.evaluation, Path(run_dir, "evaluation_report.json"),
                    evaluation_report(f4, run_dir))
    IN  PutIf(f5, k.final, final_metadata_path(run_dir),
              dump_manifest(compose_manifest(f5, run_dir[1], run_dir, 0)))

Ready == DirKind("cA", TRUE, FALSE, TRUE, TRUE, FALSE)
Finalized == DirKind("cA", TRUE, FALSE, TRUE, TRUE, TRUE)

\* complete, one artifact short, two data files, a snapshot that does not
\* read back equal, finalized
PreparedKinds ==
    {Ready,
     DirKind("cA", FALSE, TRUE, TRUE, TRUE, FALSE),
     DirKind("cA", TRUE, FALSE, FALSE, TRUE, FALSE),
     DirKind("cA", TRUE, TRUE, TRUE, TRUE, FALSE),
     DirKind("cIntKey", TRUE, FALSE, TRUE, TRUE, FALSE),
     Finalized}

NoRun ==
    [stage |-> "none", run_dir |-> <<"", "">>, configs |-> "",
     started |-> <<>>, returned |-> {}, failed |-> "none",
     final0 |-> FALSE, registry0 |-> {}]

---------------------------------------------------------------------------
(* One process finalizes runs and registers them, one call after the other *)

Init ==
    /\ \E f \in {<<>>} \cup {WriteFile(<<>>, RegistryPath, dump_registry(r)) :
                              r \in InitRegistries},
          k1 \in PreparedKinds, k2 \in {Ready, Finalized} :
          fs = PreparedDir(PreparedDir(f, <<"d1", "v1">>, k1), <<"d1", "v2">>, k2)
    /\ dirs = RunDirs
    /\ now = 0
    /\ proc = [p \in Procs |-> IdleProc]
    /\ orch = [p \in Procs |-> NoRun]

EngineStep(p) ==
    \/ atomic_open(p)
    \/ atomic_write(p)
    \/ atomic_replace(p)

Next ==
    \/ \E c \in Configs, r \in RunDirs : call_persist_artifacts(1, c, r)
    \/ \E r \in RunDirs : call_update_registry(1, r)
    \/ EngineStep(1)
    \/ atomic_fault(1)

Spec == Init /\ [][Next]_vars

---------------------------------------------------------------------------
(* Properties of the finalizer and the registry updater, one writer *)

\* process p starts a call of `op` on `run_dir` in this step
Calls(p, op, run_dir) ==
    /\ proc[p].pc \in {"idle", "done"}
    /\ proc'[p] # proc[p]
    /\ proc'[p].op = op
    /\ proc'[p].run_dir = run_dir

\* the call of process p before this step was `op` on `run_dir` and returned
ReturnedFrom(p, op, run_dir) ==
    /\ proc[p].pc = "done"
    /\ proc[p].op = op
    /\ proc[p].run_dir = run_dir
    /\ proc[p].result = "ok"

\* the preconditions of finalization, as the specification lists them
PreconditionsMet(f, run_dir, configs) ==
    /\ final_metadata_path(run_dir) \notin DOMAIN f
    /\ Cardinality({n \in {"data.parquet", "data.csv"} :
                      Path(run_dir, n) \in DOMAIN f}) = 1
    /\ \A a \in required_artifacts : Path(run_dir, a) \in DOMAIN f
    /\ Get(f[Path(run_dir, "configs_snapshot.json")], "configs") = configs

\* a persist_artifacts call whose preconditions are met goes past its checks
PersistStarts ==
    \A r \in RunDirs, c \in Configs :
        (Calls(1, "persist_artifacts", r) /\ proc'[1].configs = c
           /\ PreconditionsMet(fs, r, c))
        => proc'[1].pc = "open"

\* a persist_artifacts call that went past its checks and did not fail in
\* the write has returned, and final_metadata.json holds its manifest
PersistWrote ==
    \A r \in RunDirs :
        (proc[1].pc = "done" /\ proc[1].op = "persist_artifacts"
           /\ proc[1].run_dir = r /\ proc[1].payload # <<>>
           /\ ~proc[1].faulted)
        => /\ proc[1].result = "ok"
           /\ Cur(fs, final_metadata_path(r)) = {proc[1].payload}

\* the call after a persist_artifacts call that returned, on the same run
\* directory, raises and leaves what the first call wrote
SecondPersistRaises ==
    \A r \in RunDirs :
        (ReturnedFrom(1, "persist_artifacts", r)
           /\ Calls(1, "persist_artifacts", r))
        => /\ proc'[1].pc = "done"
           /\ proc'[1].result = "raised"
           /\ Cur(fs', final_metadata_path(r)) = {proc[1].payload}

\* C1: when persist_artifacts is called twice in sequence on a run directory
\* whose preconditions are met, the first call goes past its checks and,
\* unless its write fails, returns with final_metadata.json holding the
\* manifest it composed; the second call raises and final_metadata.json
\* still holds exactly what the first call wrote.
C1_RefinalizeRaises ==
    [][PersistStarts]_vars /\ []PersistWrote /\ [][SecondPersistRaises]_vars

\* a persist_artifacts call has raised on a run directory that an earlier
\* call of this run finalized (at time 1: the manifests the runs start from
\* are of time 0)
C1_Witness ==
    \E r \in RunDirs :
        /\ proc[1].pc = "done"
        /\ proc[1].op = "persist_artifacts"
        /\ proc[1].run_dir = r
        /\ proc[1].result = "raised"
        /\ final_metadata_path(r) \in DOMAIN fs
        /\ Get(fs[final_metadata_path(r)], "finalized_at_utc") = 1

\* the versions list of dataset d in a registry document
VersionsOf(c, d) ==
    IF IsJson(c) /\ d \in DOMAIN load_registry(c)
    THEN load_registry(c)[d].versions ELSE <<>>

\* the rename of an update puts its document in place: the dataset's list
\* is one record longer and holds the version of the run directory
UpdateAppendsOne ==
    \A r \in RunDirs :
        (proc[1].pc = "replace" /\ proc[1].op = "update_registry"
           /\ proc[1].run_dir = r /\ proc'[1].result = "ok")
        => LET d == proc[1].manifest.dataset
               before == VersionsOf(fs[RegistryPath], d)
               after == VersionsOf(fs'[RegistryPath], d)
           IN  /\ Cur(fs', RegistryPath) = {proc[1].payload}
               /\ Len(after) = Len(before) + 1
               /\ after[Len(after)].version = basename(r)

\* the call after an update that returned, for the same manifest, raises and
\* leaves the registry file as the first call wrote it
SecondUpdateRaises ==
    \A r \in RunDirs :
        (ReturnedFrom(1, "update_registry", r)
           /\ Calls(1, "update_registry", r))
        => /\ proc'[1].pc = "done"
           /\ proc'[1].result = "raised"
           /\ Cur(fs', RegistryPath) = {proc[1].payload}

\* C2: registering the same manifest twice in sequence succeeds the first
\* time, growing the dataset's versions list by exactly one record, and
\* raises the second time, leaving the registry file identical to what the
\* first call wrote.
C2_ReregisterRaises ==
    [][UpdateAppendsOne]_vars /\ [][SecondUpdateRaises]_vars

\* an update has raised for a version that this run finalized (at time 1)
\* and registered
C2_Witness ==
    \E r \in RunDirs :
        /\ proc[1].pc = "done"
        /\ proc[1].op = "update_registry"
        /\ proc[1].run_dir = r
        /\ proc[1].result = "raised"
        /\ RegistryPath \in DOMAIN fs
        /\ \E i \in DOMAIN VersionsOf(fs[RegistryPath], r[1]) :
              VersionsOf(fs[RegistryPath], r[1])[i]
                = [version |-> r[2], run_dir |-> r, finalized_at_utc |-> 1]

IsPrefix(a, b) == Len(a) <= Len(b) /\ SubSeq(b, 1, Len(a)) = a

\* a step keeps every dataset of the registry and every record of its list
KeepsVersions ==
    RegistryPath \in DOMAIN fs =>
        /\ RegistryPath \in DOMAIN fs'
        /\ IsJson(fs'[RegistryPath])
        /\ \A d \in DOMAIN load_registry(fs[RegistryPath]) :
             /\ d \in DOMAIN load_registry(fs'[RegistryPath])
             /\ IsPrefix(VersionsOf(fs[RegistryPath], d),
                         VersionsOf(fs'[RegistryPath], d))

\* C3: across every step of every update_registry_from_final_metadata call
\* of a single process, returning or raising, the versions list of every
\* dataset of the registry is a prefix of that list after the step, and no
\* dataset leaves the registry.
C3_AppendOnly == [][KeepsVersions]_vars

\* an update has returned and the list it appended to was not empty
C3_Witness ==
    /\ proc[1].pc = "done"
    /\ proc[1].op = "update_registry"
    /\ proc[1].result = "ok"
    /\ Len(VersionsOf(fs[RegistryPath], "d1")) >= 2

Targets == {final_metadata_path(r) : r \in RunDirs} \cup {RegistryPath}

\* a step leaves every target as it was or puts the complete document of
\* the call there
TargetOldOrNew ==
    \A t \in Targets :
        \/ Cur(fs', t) = Cur(fs, t)
        \/ /\ proc[1].target = t
           /\ IsJson(proc[1].payload)
           /\ Cur(fs', t) = {proc[1].payload}

TargetsComplete == \A t \in Targets : t \in DOMAIN fs => IsJson(fs[t])

\* C7: with a single writer, whatever step of the write fails or is
\* interrupted, every step leaves final_metadata.json and the registry file
\* as they were or puts the complete new document there; the target is a
\* complete document whenever it exists.
C7_NoPartialTarget == [][TargetOldOrNew]_vars /\ []TargetsComplete

\* a write has failed half way: the temporary file holds a part of the
\* document
C7_Witness ==
    /\ proc[1].faulted
    /\ proc[1].off > 0
    /\ proc[1].off < Len(proc[1].payload)
    /\ with_suffix_tmp(proc[1].target) \in DOMAIN fs
    /\ ~IsJson(fs[with_suffix_tmp(proc[1].target)])

---------------------------------------------------------------------------
(* One process runs the stages that write a run directory, in any order *)

InitData ==
    /\ fs = <<>>
    /\ dirs \in SUBSET RunDirs
    /\ now = 0
    /\ proc = [p \in Procs |-> IdleProc]
    /\ orch = [p \in Procs |-> NoRun]

NextData ==
    \/ \E c \in Configs, r \in RunDirs : call_snapshot_run_context(1, c, r)
    \/ \E r \in RunDirs, cfg_ok, parquet_ok, csv_ok \in BOOLEAN :
          call_generate_dataset(1, "cA", r, cfg_ok, parquet_ok, csv_ok)
    \/ \E r \in RunDirs, input_ok, parquet_ok, csv_ok \in BOOLEAN :
          call_ingest_external_dataset(1, r, input_ok, parquet_ok, csv_ok)
    \/ \E r \in RunDirs, valid \in BOOLEAN : call_validate_dataset(1, "cA", r, valid)
    \/ \E r \in RunDirs, readable \in BOOLEAN :
          call_evaluate_dataset(1, "cA", r, readable)

SpecData == InitData /\ [][NextData]_vars

\* C6: after every generate_dataset or ingest_external_dataset call that
\* returned, exactly one of data.parquet and data.csv exists in the run
\* directory of the call, also when the directory held a data file before.
C6_ExactlyOneDataFile ==
    (proc[1].pc = "done" /\ proc[1].result = "ok"
       /\ proc[1].op \in {"generate_dataset", "ingest_external_dataset"})
    => has_parquet(fs, proc[1].run_dir) # has_csv(fs, proc[1].run_dir)

---------------------------------------------------------------------------
(* Two processes finalize and register at the same time *)

InitConc ==
    /\ \E e \in InitEntries("d1"), k1 \in {Ready, Finalized} :
          fs = PreparedDir(
                 PreparedDir(
                   WriteFile(<<>>, RegistryPath,
                             dump_registry([d \in Datasets |->
                                 IF d = "d1" THEN e ELSE PassiveEntry(d)])),
                   <<"d1", "v1">>, k1),
                 <<"d1", "v2">>, Finalized)
    /\ dirs = RunDirs
    /\ now = 0
    /\ proc = [p \in Procs |-> IdleProc]
    /\ orch = [p \in Procs |-> NoRun]

NextConc ==
    \E p \in Procs :
        \/ \E r \in RunDirs : call_persist_artifacts(p, "cA", r)
        \/ \E r \in RunDirs : call_update_registry(p, r)
        \/ EngineStep(p)

SpecConc == InitConc /\ [][NextConc]_vars

\* C8: in every interleaving of two processes that write the same target
\* through the temporary file, final_metadata.json and the registry file
\* hold a complete document whenever they exist.
C8_NoHalfWrittenTarget == \A t \in Targets : t \in DOMAIN fs => IsJson(fs[t])

Range(q) == {q[i] : i \in DOMAIN q}

\* both processes have returned from an update for the same dataset
BothUpdated ==
    /\ \A p \in Procs : /\ proc[p].pc = "done"
                        /\ proc[p].op = "update_registry"
                        /\ proc[p].result = "ok"
    /\ proc[1].manifest.dataset = proc[2].manifest.dataset

\* C9: when two concurrent updates for the same dataset have both returned,
\* the registry holds the version records of both, and the two did not
\* carry the same version.
C9_NoSilentConflict ==
    BothUpdated =>
        /\ \A p \in Procs :
              version_record(proc[p].manifest)
                \in Range(VersionsOf(fs[RegistryPath], proc[p].manifest.dataset))
        /\ basename(proc[1].manifest.run_dir) # basename(proc[2].manifest.run_dir)

\* at most one of two persist_artifacts calls on a run directory returns
OneFinalizer ==
    ~ /\ \A p \in Procs : /\ proc[p].pc = "done"
                          /\ proc[p].op = "persist_artifacts"
                          /\ proc[p].result = "ok"
      /\ proc[1].run_dir = proc[2].run_dir

\* a manifest that is visible stays as it is
ManifestPermanent ==
    \A r \in RunDirs :
        final_metadata_path(r) \in DOMAIN fs
        => Cur(fs', final_metadata_path(r)) = Cur(fs, final_metadata_path(r))

\* C10: in every interleaving of two persist_artifacts calls on one run
\* directory at most one returns, and final_metadata.json, once visible,
\* is never replaced.
C10_OneShotFinalize == []OneFinalizer /\ [][ManifestPermanent]_vars

---------------------------------------------------------------------------
(* scripts/run.py: main, the orchestrated run *)

\* engine/profile.py: profile_dataset; `readable`: the prior data loads
prior_profile(f, prior_version_dir) ==
    << <<"{">>, <<"source_version", basename(prior_version_dir)>>, <<"}">> >>

profile_dataset(p, configs, run_dir, prior_version_dir, readable) ==
    LET ok == has_data(fs, prior_version_dir) /\ readable
    IN  /\ fs' = IF ok
                 THEN WriteFile(fs, Path(run_dir, "prior_profile.json"),
                                prior_profile(fs, prior_version_dir))
                 ELSE fs
        /\ proc' = [proc EXCEPT ![p] =
                      Completed("profile_dataset", configs, run_dir, ok)]

\* the stages in the order of main
StageOrder ==
    <<"profiling", "generation", "validation", "evaluation",
      "artifact_persistence", "registry_update">>

StageRank(stage) == CHOOSE i \in DOMAIN StageOrder : StageOrder[i] = stage

NextStage(stage) ==
    IF StageRank(stage) = Len(StageOrder) THEN "end"
    ELSE StageOrder[StageRank(stage) + 1]

\* an orchestrator whose except blocks do not raise again
AfterStageSwallowed(stage, ok) == NextStage(stage)

\* try: the stage; except: log and raise
AfterStage(stage, ok) == IF ok THEN NextStage(stage) ELSE "failed"

\* the stage function is called
StageStart(o, stage) == [o EXCEPT !.started = Append(@, stage)]

\* the stage function returned (ok) or raised
StageEnd(o, stage, ok) ==
    [o EXCEPT !.stage = AfterStage(stage, ok),
              !.returned = IF ok THEN @ \cup {stage} ELSE @,
              !.failed = IF ok \/ @ # "none" THEN @ ELSE stage]

\* os.listdir(runs_base): the directories with a smaller version
prior_versions(run_dir) ==
    {v \in Versions : /\ <<run_dir[1], v>> \in dirs
                      /\ VersionRank(v) < VersionRank(run_dir[2])}

\* sorted(prior_versions, reverse=True)[0]
prior_version(run_dir) ==
    CHOOSE v \in prior_versions(run_dir) :
        \A w \in prior_versions(run_dir) : VersionRank(w) <= VersionRank(v)

\* main up to snapshot_run_context; one invocation of the script per process
main_start(p, configs, run_dir) ==
    /\ CanCall(p)
    /\ snapshot_run_context(p, configs, run_dir)
    /\ orch' = [orch EXCEPT ![p] =
                  [NoRun EXCEPT !.stage = "profiling",
                                !.run_dir = run_dir,
                                !.configs = configs,
                                !.final0 = AlreadyFinalized(fs, run_dir),
                                !.registry0 = Cur(fs, RegistryPath)]]
    /\ UNCHANGED now

\* 1. Profiling (if prior version exists)
main_profiling(p, readable) ==
    /\ orch[p].stage = "profiling"
    /\ LET o == orch[p]
       IN  IF prior_versions(o.run_dir) = {}
           THEN /\ orch' = [orch EXCEPT ![p].stage = "generation"]
                /\ UNCHANGED <<fs, proc>>
           ELSE /\ profile_dataset(p, o.configs, o.run_dir,
                                   <<o.run_dir[1], prior_version(o.run_dir)>>,
                                   readable)
                /\ orch' = [orch EXCEPT ![p] =
                              StageEnd(StageStart(o, "profiling"), "profiling",
                                       proc'[p].result = "ok")]
    /\ UNCHANGED <<dirs, now>>

\* 2. Generation
main_generation(p, cfg_ok, parquet_ok, csv_ok) ==
    /\ orch[p].stage = "generation"
    /\ generate_dataset(p, orch[p].configs, orch[p].run_dir,
                        cfg_ok, parquet_ok, csv_ok)
    /\ orch' = [orch EXCEPT ![p] =
                  StageEnd(StageStart(@, "generation"), "generation",
                           proc'[p].result = "ok")]
    /\ UNCHANGED <<dirs, now>>

\* 3. Validation
main_validation(p, valid) ==
    /\ orch[p].stage = "validation"
    /\ validate_dataset(p, orch[p].configs, orch[p].run_dir, valid)
    /\ orch' = [orch EXCEPT ![p] =
                  StageEnd(StageStart(@, "validation"), "validation",
                           proc'[p].result = "ok")]
    /\ UNCHANGED <<dirs, now>>

\* 4. Evaluation
main_evaluation(p, readable) ==
    /\ orch[p].stage = "evaluation"
    /\ evaluate_dataset(p, orch[p].configs, orch[p].run_dir, readable)
    /\ orch' = [orch EXCEPT ![p] =
                  StageEnd(StageStart(@, "evaluation"), "evaluation",
                           proc'[p].result = "ok")]
    /\ UNCHANGED <<dirs, now>>

\* 5. Artifact persistence: persist_artifacts is called
main_artifact_persistence(p) ==
    /\ orch[p].stage = "artifact_persistence"
    /\ persist_artifacts_begin(p, orch[p].configs, orch[p].run_dir)
    /\ orch' = [orch EXCEPT ![p] =
                  [StageStart(@, "artifact_persistence")
                     EXCEPT !.stage = "in_artifact_persistence"]]
    /\ UNCHANGED <<fs, dirs>>

\* persist_artifacts returned or raised
main_artifact_persistence_end(p) ==
    /\ orch[p].stage = "in_artifact_persistence"
    /\ proc[p].pc = "done"
    /\ orch' = [orch EXCEPT ![p] =
                  StageEnd(@, "artifact_persistence", proc[p].result = "ok")]
    /\ UNCHANGED <<fs, dirs, now, proc>>

\* Registry update: update_registry_from_final_metadata is called
main_registry_update(p) ==
    /\ orch[p].stage = "registry_update"
    /\ update_registry_begin(p, orch[p].run_dir)
    /\ orch' = [orch EXCEPT ![p] =
                  [StageStart(@, "registry_update")
                     EXCEPT !.stage = "in_registry_update"]]
    /\ UNCHANGED <<fs, dirs, now>>

\* update_registry_from_final_metadata returned or raised
main_registry_update_end(p) ==
    /\ orch[p].stage = "in_registry_update"
    /\ proc[p].pc = "done"
    /\ orch' = [orch EXCEPT ![p] =
                  StageEnd(@, "registry_update", proc[p].result = "ok")]
    /\ UNCHANGED <<fs, dirs, now, proc>>

\* a run directory that holds nothing
EmptyDir == DirKind("none", FALSE, FALSE, FALSE, FALSE, FALSE)

\* the directories under runs/ before the run: none, or what earlier runs
\* left, finished or aborted
RECURSIVE PreparedDirs(_, _, _)
PreparedDirs(f, ds, kind) ==
    IF ds = {} THEN f
    ELSE LET r == CHOOSE x \in ds : TRUE
         IN  PreparedDirs(PreparedDir(f, r, kind[r]), ds \ {r}, kind)

InitMain ==
    /\ \E f \in {<<>>} \cup {WriteFile(<<>>, RegistryPath, dump_registry(r)) :
                              r \in InitRegistries},
          kind \in [RunDirs -> PreparedKinds \cup {EmptyDir}] :
          /\ dirs \in SUBSET RunDirs
          /\ \A r \in RunDirs \ dirs : kind[r] = EmptyDir
          /\ fs = PreparedDirs(f, dirs, kind)
    /\ now = 0
    /\ proc = [p \in Procs |-> IdleProc]
    /\ orch = [p \in Procs |-> NoRun]

NextMain ==
    \/ \E c \in Configs, r \in RunDirs : main_start(1, c, r)
    \/ \E readable \in BOOLEAN : main_profiling(1, readable)
    \/ \E cfg_ok, parquet_ok, csv_ok \in BOOLEAN :
          main_generation(1, cfg_ok, parquet_ok, csv_ok)
    \/ \E valid \in BOOLEAN : main_validation(1, valid)
    \/ \E readable \in BOOLEAN : main_evaluation(1, readable)
    \/ main_artifact_persistence(1)
    \/ main_artifact_persistence_end(1)
    \/ main_registry_update(1)
    \/ main_registry_update_end(1)
    \/ EngineStep(1)
    \/ atomic_fault(1)

SpecMain == InitMain /\ [][NextMain]_vars

---------------------------------------------------------------------------
(* Properties of the orchestrated run *)

\* the orchestrator has exited
Exited(o) == o.stage \in {"end", "failed"}

\* the stages of the claim on aborted runs
AbortingStages ==
    {"profiling", "generation", "validation", "evaluation",
     "artifact_persistence"}

\* C4: a run that started on a run directory without final_metadata.json
\* and in which profiling, generation, validation, evaluation or artifact
\* persistence raised has, when the orchestrator exits, no
\* final_metadata.json in the run directory and the registry file as it was
\* at the start.
C4_AbortedRunNotFinalized ==
    LET o == orch[1]
    IN  (Exited(o) /\ o.failed \in AbortingStages /\ ~o.final0)
        => /\ final_metadata_path(o.run_dir) \notin DOMAIN fs
           /\ Cur(fs, RegistryPath) = o.registry0

\* persistence raised while it wrote, in a directory that was complete, with
\* a registry that would have taken the version
C4_Witness ==
    LET o == orch[1]
    IN  /\ o.stage = "failed"
        /\ o.failed = "artifact_persistence"
        /\ ~o.final0
        /\ proc[1].faulted
        /\ proc[1].off > 0
        /\ o.registry0 # {}
        /\ \E c \in o.registry0 :
              /\ IsJson(c)
              /\ o.run_dir[1] \in DOMAIN load_registry(c)
              /\ ~DuplicateVersion(load_registry(c)[o.run_dir[1]].versions,
                                   o.run_dir[2])

\* C5: the stages start in the order profiling, generation, validation,
\* evaluation, artifact persistence, registry update, only profiling may be
\* left out, a stage starts only when every stage started before it has
\* returned, and the registry update starts only after persist_artifacts
\* returned for this run.
C5_StagesInOrder ==
    LET o == orch[1]
        n == Len(o.started)
    IN  /\ n > 0 => o.started[1] \in {"profiling", "generation"}
        /\ \A i \in 1..(n - 1) :
              /\ StageRank(o.started[i + 1]) = StageRank(o.started[i]) + 1
              /\ o.started[i] \in o.returned
        /\ "registry_update" \in Range(o.started)
           => /\ "artifact_persistence" \in o.returned
              /\ final_metadata_path(o.run_dir) \in DOMAIN fs

\* a run of all six stages to the end, and its version in the registry
C5_Witness ==
    /\ orch[1].stage = "end"
    /\ orch[1].started = StageOrder
    /\ version_record(proc[1].manifest)
         \in Range(VersionsOf(fs[RegistryPath], orch[1].run_dir[1]))

---------------------------------------------------------------------------
(* The finalized run directory under later operations *)

\* the files of a run directory with their contents
DirContent(f, run_dir) == [path \in DirFiles(f, run_dir) |-> f[path]]

\* no step creates, overwrites or deletes a file of a finalized directory
FinalizedDirsFrozen ==
    \A r \in RunDirs :
        final_metadata_path(r) \in DOMAIN fs
        => DirContent(fs', r) = DirContent(fs, r)

\* C11: once final_metadata.json exists in a run directory, no later step
\* of the system (the orchestrator invoked again on the same run, the
\* registry update) creates, overwrites or deletes a file inside that run
\* directory.
C11_FinalizedRunFrozen == [][FinalizedDirsFrozen]_vars

---------------------------------------------------------------------------
(* The source of the prior profile *)

\* the versions of the dataset below `run_dir` that are finalized
finalized_prior_versions(f, run_dir) ==
    {v \in Versions : /\ VersionRank(v) < VersionRank(run_dir[2])
                      /\ final_metadata_path(<<run_dir[1], v>>) \in DOMAIN f}

\* this step is the profiling stage that wrote prior_profile.json
ProfileWritten ==
    /\ orch[1].stage = "profiling"
    /\ "profiling" \in orch'[1].returned

\* the profile written in this step comes from the greatest finalized
\* version below the version of the run
ProfileFromFinalizedPrior ==
    ProfileWritten =>
        LET r == orch[1].run_dir
            w == Get(fs'[Path(r, "prior_profile.json")], "source_version")
        IN  /\ w \in finalized_prior_versions(fs, r)
            /\ \A x \in finalized_prior_versions(fs, r) :
                  VersionRank(x) <= VersionRank(w)

\* C12: whenever the orchestrator writes prior_profile.json for a run of
\* version V, the profiled directory is that of the greatest finalized
\* version W below V; a directory without final_metadata.json is never the
\* source.
C12_ProfileSourceFinalized == [][ProfileFromFinalizedPrior]_vars

---------------------------------------------------------------------------
(* Two orchestrated runs of one dataset at the same time, each with its    *)
(* own version; the configuration resolves, the data loads and validates,  *)
(* the csv writer works                                                    *)

\* the run directory of the run of process p
RunOf(p) == <<"d1", IF p = 1 THEN "v1" ELSE "v2">>

InitPair ==
    /\ \E e \in InitEntries("d1") :
          /\ e.versions = <<>>
          /\ fs = WriteFile(<<>>, RegistryPath,
                     dump_registry([d \in Datasets |->
                        IF d = "d1" THEN e ELSE PassiveEntry(d)]))
    /\ dirs = {}
    /\ now = 0
    /\ proc = [p \in Procs |-> IdleProc]
    /\ orch = [p \in Procs |-> NoRun]

NextPair ==
    \E p \in Procs :
        \/ main_start(p, "cA", RunOf(p))
        \/ main_profiling(p, TRUE)
        \/ \E parquet_ok \in BOOLEAN : main_generation(p, TRUE, parquet_ok, TRUE)
        \/ main_validation(p, TRUE)
        \/ main_evaluation(p, TRUE)
        \/ main_artifact_persistence(p)
        \/ main_artifact_persistence_end(p)
        \/ main_registry_update(p)
        \/ main_registry_update_end(p)
        \/ EngineStep(p)

SpecPair == InitPair /\ [][NextPair]_vars

\* C13: two concurrent runs of one dataset with different versions, each
\* in its own run directory, are independent: in every interleaving each
\* run passes the stages up to and including finalization, as it does when
\* the other run is not writing its directory at the same time (alone,
\* before the other run, or after it).
C13_ConcurrentRunsIndependent ==
    \A p \in Procs : orch[p].failed \notin AbortingStages

---------------------------------------------------------------------------
(* persist_artifacts on every combination of artifacts *)

PersistDir == <<"d1", "v1">>

ArtifactNames == required_artifacts \cup {"data.parquet", "data.csv"}

\* what the stages write under each name; the snapshot is of configs c
ArtifactContent(name, c) ==
    CASE name = "configs_snapshot.json" -> dump_configs(c)
      [] name = "run_metadata.json" ->
           snapshot_files(<<>>, PersistDir, c)[Path(PersistDir, name)]
      [] name = "validation_report.json" -> validation_report
      [] name = "evaluation_report.json" -> evaluation_report(<<>>, PersistDir)
      [] OTHER -> Table("generated")

InitPersist ==
    /\ \E S \in SUBSET ArtifactNames, c \in Configs :
          fs = [q \in {Path(PersistDir, n) : n \in S} |-> ArtifactContent(q[3], c)]
    /\ dirs = {PersistDir}
    /\ now = 0
    /\ proc = [p \in Procs |-> IdleProc]
    /\ orch = [p \in Procs |-> NoRun]

NextPersist ==
    \/ \E c \in Configs : call_persist_artifacts(1, c, PersistDir)
    \/ EngineStep(1)
    \/ atomic_fault(1)

SpecPersist == InitPersist /\ [][NextPersist]_vars

\* one of the preconditions is violated: two data files, none, one of the
\* four artifacts not there, or a snapshot that is not equal to the configs
PreconditionViolated(f, run_dir, configs) ==
    \/ Path(run_dir, "data.parquet") \in DOMAIN f
       /\ Path(run_dir, "data.csv") \in DOMAIN f
    \/ Path(run_dir, "data.parquet") \notin DOMAIN f
       /\ Path(run_dir, "data.csv") \notin DOMAIN f
    \/ \E a \in {"configs_snapshot.json", "run_metadata.json",
                 "validation_report.json", "evaluation_report.json"} :
          Path(run_dir, a) \notin DOMAIN f
    \/ Path(run_dir, "configs_snapshot.json") \in DOMAIN f
       /\ Get(f[Path(run_dir, "configs_snapshot.json")], "configs") # configs

\* a call with a violated precondition raises at once and writes nothing
ViolatedPersistRaises ==
    \A c \in Configs :
        (Calls(1, "persist_artifacts", PersistDir) /\ proc'[1].configs = c
           /\ PreconditionViolated(fs, PersistDir, c))
        => /\ proc'[1].pc = "done"
           /\ proc'[1].result = "raised"
           /\ fs' = fs

\* final_metadata.json appears only in a call without violated precondition
FinalOnlyWhenMet ==
    (final_metadata_path(PersistDir) \notin DOMAIN fs
       /\ final_metadata_path(PersistDir) \in DOMAIN fs')
    => /\ proc[1].op = "persist_artifacts"
       /\ ~PreconditionViolated(fs, PersistDir, proc[1].configs)

\* C14: persist_artifacts raises and creates no final_metadata.json when
\* both data files exist, neither exists, one of the four required
\* artifacts is missing, or the snapshot is not equal to the configs
\* argument; it creates final_metadata.json only when none of these holds.
C14_PreconditionsEnforced ==
    [][ViolatedPersistRaises]_vars /\ [][FinalOnlyWhenMet]_vars

\* a call raised on a directory that lacks nothing but the equality of the
\* snapshot with the configs argument
C14_Witness ==
    /\ proc[1].pc = "done"
    /\ proc[1].op = "persist_artifacts"
    /\ proc[1].result = "raised"
    /\ \A a \in required_artifacts : Path(PersistDir, a) \in DOMAIN fs
    /\ has_parquet(fs, PersistDir) # has_csv(fs, PersistDir)
    /\ Get(fs[Path(PersistDir, "configs_snapshot.json")], "configs")
         # proc[1].configs
    /\ final_metadata_path(PersistDir) \notin DOMAIN fs

---------------------------------------------------------------------------
(* update_registry_from_final_metadata on manifests and registries of     *)
(* every shape                                                             *)

\* a manifest without one of its keys
DropKey(c, key) == SelectSeq(c, LAMBDA t : t[1] # key)

\* manifests a run directory may hold: complete, or short of a field
InitManifests(run_dir) ==
    LET m == dump_manifest(compose_manifest(
                PreparedDir(<<>>, run_dir, Ready), run_dir[1], run_dir, 0))
    IN  {m} \cup {DropKey(m, k) : k \in {"dataset", "run_dir", "finalized_at_utc"}}

InitRegister ==
    /\ \E f \in {<<>>} \cup {WriteFile(<<>>, RegistryPath, dump_registry(r)) :
                              r \in InitRegistries},
          k2 \in {Ready, Finalized} :
          \E g \in {PreparedDir(f, <<"d1", "v1">>, Ready)}
                   \cup {WriteFile(PreparedDir(f, <<"d1", "v1">>, Ready),
                                   final_metadata_path(<<"d1", "v1">>), m) :
                            m \in InitManifests(<<"d1", "v1">>)} :
             fs = PreparedDir(g, <<"d1", "v2">>, k2)
    /\ dirs = RunDirs
    /\ now = 0
    /\ proc = [p \in Procs |-> IdleProc]
    /\ orch = [p \in Procs |-> NoRun]

NextRegister ==
    \/ \E r \in RunDirs : call_update_registry(1, r)
    \/ EngineStep(1)
    \/ atomic_fault(1)

SpecRegister == InitRegister /\ [][NextRegister]_vars

\* the datasets that have an entry in a registry document
DatasetsOf(c) == {c[i][2] : i \in {j \in DOMAIN c : c[j][1] = "entry"}}

\* the cases in which the updater has to refuse
RegistrationRefused(f, run_dir) ==
    LET mp == final_metadata_path(run_dir)
    IN  \/ mp \notin DOMAIN f
        \/ RegistryPath \notin DOMAIN f
        \/ \E k \in {"dataset", "run_dir", "finalized_at_utc"} : ~HasKey(f[mp], k)
        \/ Get(f[mp], "dataset") \notin DatasetsOf(f[RegistryPath])

\* a call in one of these cases raises and leaves the registry file as it
\* is, absent or present
RefusedUpdateRaises ==
    \A r \in RunDirs :
        (Calls(1, "update_registry", r) /\ RegistrationRefused(fs, r))
        => /\ proc'[1].pc = "done"
           /\ proc'[1].result = "raised"
           /\ Cur(fs', RegistryPath) = Cur(fs, RegistryPath)

\* no step creates the registry file or an entry in it
NothingImplicit ==
    /\ RegistryPath \in DOMAIN fs' => RegistryPath \in DOMAIN fs
    /\ RegistryPath \in DOMAIN fs'
       => DatasetsOf(fs'[RegistryPath]) \subseteq DatasetsOf(fs[RegistryPath])

\* C15: update_registry_from_final_metadata raises and neither creates nor
\* modifies the registry file when the manifest file is absent, the registry
\* file is absent, a required manifest field is missing, or the manifest's
\* dataset has no entry; no call creates the registry file or a dataset
\* entry.
C15_NoImplicitRegistry ==
    [][RefusedUpdateRaises]_vars /\ [][NothingImplicit]_vars

\* a call raised for a complete manifest whose dataset has no entry in the
\* registry that exists
C15_Witness ==
    /\ proc[1].pc = "done"
    /\ proc[1].op = "update_registry"
    /\ proc[1].result = "raised"
    /\ RegistryPath \in DOMAIN fs
    /\ final_metadata_path(proc[1].run_dir) \in DOMAIN fs
    /\ ~MissingFields(fs[final_metadata_path(proc[1].run_dir)])
    /\ Get(fs[final_metadata_path(proc[1].run_dir)], "dataset")
         \notin DatasetsOf(fs[RegistryPath])

\* this step is the rename that ends a successful update
UpdateReturns ==
    /\ proc[1].pc = "replace"
    /\ proc[1].op = "update_registry"
    /\ proc'[1].result = "ok"

\* what a successful update leaves in the registry
RecordMatchesManifest ==
    UpdateReturns =>
        LET mf == fs[final_metadata_path(proc[1].run_dir)]
            d == Get(mf, "dataset")
            old == load_registry(fs[RegistryPath])
            new == load_registry(fs'[RegistryPath])
            last == new[d].versions[Len(new[d].versions)]
        IN  /\ new[d].latest_version = last.version
            /\ last.version = Get(mf, "run_dir")[2]
            /\ last.run_dir = Get(mf, "run_dir")
            /\ last.finalized_at_utc = Get(mf, "finalized_at_utc")
            /\ DOMAIN new = DOMAIN old
            /\ \A e \in DOMAIN old \ {d} : new[e] = old[e]

\* C16: after every successful update the dataset's latest_version is the
\* version of the last record of its versions list, that version is the
\* final path component of the manifest's run_dir, the record's run_dir and
\* finalized_at_utc are the manifest's, and the entries of all other
\* datasets are unchanged.
C16_LatestIsLastRecord == [][RecordMatchesManifest]_vars

\* an update returned that appended to a list that held a record, in a
\* registry with another dataset
C16_Witness ==
    /\ proc[1].pc = "done"
    /\ proc[1].op = "update_registry"
    /\ proc[1].result = "ok"
    /\ DatasetsOf(fs[RegistryPath]) = Datasets
    /\ Len(VersionsOf(fs[RegistryPath], proc[1].manifest.dataset)) = 2

\* a versions list in strictly increasing order of the version strings
StrictlyIncreasing(versions) ==
    \A i, j \in DOMAIN versions :
        i < j => VersionRank(versions[i].version) < VersionRank(versions[j].version)

\* a step takes an ordered history to an ordered history whose
\* latest_version is not below a recorded version
MonotonicStep ==
    (RegistryPath \in DOMAIN fs /\ RegistryPath \in DOMAIN fs')
    => \A d \in DatasetsOf(fs'[RegistryPath]) :
          LET old == VersionsOf(fs[RegistryPath], d)
              new == VersionsOf(fs'[RegistryPath], d)
          IN  StrictlyIncreasing(old)
              => /\ StrictlyIncreasing(new)
                 /\ \A i \in DOMAIN new :
                       VersionRank(new[i].version)
                         <= VersionRank(load_registry(fs'[RegistryPath])[d].latest_version)

\* C17: the version history is monotonic: successful registrations, in any
\* order of the version strings of the runs, keep the versions list
\* strictly increasing in version-string order and never move
\* latest_version below a version already recorded.
C17_MonotonicHistory == [][MonotonicStep]_vars

---------------------------------------------------------------------------
(* engine/validate.py: the checks of validate_dataset on a table *)

\* rows of the tables of the model
Rows == 2

\* a constraint that is not declared: no value
None == {}

\* a table: per column the dtype, whether it holds a null, the least and
\* the greatest value, whether its values parse as timestamps
ColStat(dtype, nulls, lo, hi, iso) ==
    [dtype |-> dtype, nulls |-> nulls, lo |-> lo, hi |-> hi, iso |-> iso]

\* a column definition of schema.yaml
ColDef(type, nullable, min, max) ==
    [type |-> type, nullable |-> nullable, min |-> min, max |-> max]

\* sorted(schema_cols)
ColumnOrder == <<"amount", "extra", "id">>

\* dtype_map
dtype_map ==
    [string |-> {"object", "string"},
     float |-> {"float64", "float32", "float16"},
     integer |-> {"int64", "int32", "int16", "int8",
                  "uint8", "uint16", "uint32", "uint64"},
     boolean |-> {"bool", "boolean", "int8", "int32", "int64"},
     datetime |-> {"datetime64[ns]", "datetime64[ns, UTC]", "object", "string"}]

\* pd.to_datetime(df[col], errors="raise") returns: numbers are read as
\* epoch offsets, strings have to parse
to_datetime_ok(st) == st.dtype \in {"int64", "float64"} \/ st.iso

NoError == [error |-> "none", col |-> "", missing |-> {}, extra |-> {}]

ColumnError(kind, col) == [NoError EXCEPT !.error = kind, !.col = col]

\* the body of the loop over sorted(schema_cols), lines 79-122
check_column(col, def, st) ==
    IF def.type # "" /\ def.type \notin DOMAIN dtype_map
    THEN ColumnError("TypeError: not a supported schema type", col)
    ELSE IF /\ def.type = "datetime"
            /\ st.dtype \notin {"datetime64[ns]", "datetime64[ns, UTC]"}
            /\ ~to_datetime_ok(st)
    THEN ColumnError("TypeError: type mismatch", col)
    ELSE IF /\ def.type \notin {"", "datetime"}
            /\ st.dtype \notin dtype_map[def.type]
    THEN ColumnError("TypeError: type mismatch", col)
    ELSE IF def.nullable = FALSE /\ st.nulls
    THEN ColumnError("ValueError: not nullable but contains nulls", col)
    ELSE IF def.type \in {"float", "integer"} /\ (\E m \in def.min : st.lo < m)
    THEN ColumnError("ValueError: violates min constraint", col)
    ELSE IF def.type \in {"float", "integer"} /\ (\E m \in def.max : st.hi > m)
    THEN ColumnError("ValueError: violates max constraint", col)
    ELSE NoError

RECURSIVE check_columns(_, _, _)
check_columns(schema, tbl, i) ==
    IF i > Len(ColumnOrder) THEN NoError
    ELSE IF ColumnOrder[i] \notin DOMAIN schema THEN check_columns(schema, tbl, i + 1)
    ELSE LET e == check_column(ColumnOrder[i], schema[ColumnOrder[i]],
                               tbl.cols[ColumnOrder[i]])
         IN  IF e # NoError THEN e ELSE check_columns(schema, tbl, i + 1)

\* a validator that lets columns pass that the schema does not name
validate_checks_extra_allowed(schema, tbl) ==
    IF ~(DOMAIN schema \subseteq DOMAIN tbl.cols)
    THEN [NoError EXCEPT !.error = "ValueError: Schema column mismatch",
                         !.missing = DOMAIN schema \ DOMAIN tbl.cols]
    ELSE check_columns(schema, tbl, 1)

\* lines 63-122: the column sets, then the columns in sorted order
validate_checks(schema, tbl) ==
    IF DOMAIN tbl.cols # DOMAIN schema
    THEN [NoError EXCEPT !.error = "ValueError: Schema column mismatch",
                         !.missing = DOMAIN schema \ DOMAIN tbl.cols,
                         !.extra = DOMAIN tbl.cols \ DOMAIN schema]
    ELSE check_columns(schema, tbl, 1)

\* the report of lines 125-129
pass_report(tbl) ==
    << <<"{">>, <<"status", "pass">>, <<"row_count", tbl.rows>>,
       <<"column_count", Cardinality(DOMAIN tbl.cols)>>, <<"}">> >>

\* the table the first data file of the run directory holds
read_table(f, run_dir) ==
    f[Path(run_dir, IF has_parquet(f, run_dir) THEN "data.parquet"
                    ELSE "data.csv")][1][2]

\* validate_dataset with its checks; the schema it was given and the
\* exception it raises are kept as the payload of the call
validate_table(p, schema, run_dir) ==
    LET e == IF ~has_data(fs, run_dir)
             THEN [NoError EXCEPT !.error = "FileNotFoundError"]
             ELSE validate_checks(schema, read_table(fs, run_dir))
    IN  /\ fs' = IF e = NoError
                 THEN WriteFile(fs, Path(run_dir, "validation_report.json"),
                                pass_report(read_table(fs, run_dir)))
                 ELSE fs
        /\ proc' = [proc EXCEPT ![p] =
                      [Completed("validate_dataset", "", run_dir, e = NoError)
                         EXCEPT !.payload = <<[schema |-> schema, raised |-> e]>>]]

\* one call per run of the model; reports of earlier calls are in the
\* initial states
call_validate_table(p, schema, run_dir) ==
    /\ proc[p].pc = "idle"
    /\ orch[p].stage = "none"
    /\ validate_table(p, schema, run_dir)
    /\ UNCHANGED <<dirs, now, orch>>


\* tables and schemas of the model: the column "amount" in every shape,
\* "id" and "extra" as they are
AmountStats ==
    {ColStat(t[1], n, r[1], r[2], t[2]) :
        t \in {<<"float64", FALSE>>, <<"int64", FALSE>>,
               <<"object", FALSE>>, <<"object", TRUE>>},
        n \in BOOLEAN,
        r \in {<<2, 2>>, <<1, 2>>, <<2, 3>>}}

PlainStat == ColStat("int64", FALSE, 1, 1, FALSE)

Tables ==
    {[rows |-> Rows,
      cols |-> [c \in C |-> IF c = "amount" THEN a ELSE PlainStat]] :
        C \in SUBSET {"amount", "extra", "id"}, a \in AmountStats}

AmountDefs ==
    {ColDef(t, n, mn, mx) :
        t \in {"", "string", "float", "integer", "boolean", "datetime", "decimal"},
        n \in BOOLEAN, mn \in {None, {2}}, mx \in {None, {2}}}

PlainDef == ColDef("", TRUE, None, None)

Schemas ==
    {[c \in C |-> IF c = "amount" THEN a ELSE PlainDef] :
        C \in {{"amount"}, {"amount", "id"}, {"id"}}, a \in AmountDefs}

\* a report that an earlier call left
StaleReport == pass_report([rows |-> 0, cols |-> <<>>])

InitValidate ==
    /\ \E D \in {<<>>} \cup {WriteFile(<<>>, Path(PersistDir, n), <<<<"table", t>>>>) :
                               n \in {"data.parquet", "data.csv"}, t \in Tables},
          R \in {<<>>, WriteFile(<<>>, Path(PersistDir, "validation_report.json"),
                                 StaleReport)} :
          fs = D @@ R
    /\ dirs = {PersistDir}
    /\ now = 0
    /\ proc = [p \in Procs |-> IdleProc]
    /\ orch = [p \in Procs |-> NoRun]

NextValidate == \E schema \in Schemas : call_validate_table(1, schema, PersistDir)

SpecValidate == InitValidate /\ [][NextValidate]_vars


ReportPath == Path(PersistDir, "validation_report.json")

\* the stored dtype matches the declared type: a datetime column is stored
\* as a native datetime or its values parse as timestamps, every other type
\* has its list of accepted dtypes
TypeAccepted(type, st) ==
    IF type = "datetime"
    THEN st.dtype \in {"datetime64[ns]", "datetime64[ns, UTC]"} \/ to_datetime_ok(st)
    ELSE st.dtype \in dtype_map[type]

\* one of the checks of the validator fails on the data of the directory
ChecksFail(f, schema) ==
    \/ ~has_parquet(f, PersistDir) /\ ~has_csv(f, PersistDir)
    \/ DOMAIN read_table(f, PersistDir).cols # DOMAIN schema
    \/ \E c \in DOMAIN schema :
          LET def == schema[c]
              st == read_table(f, PersistDir).cols[c]
          IN  \/ def.type # "" /\ def.type \notin DOMAIN dtype_map
              \/ def.type \in DOMAIN dtype_map /\ ~TypeAccepted(def.type, st)
              \/ ~def.nullable /\ st.nulls
              \/ /\ def.type \in {"float", "integer"}
                 /\ \/ \E m \in def.min : st.lo < m
                    \/ \E m \in def.max : st.hi > m

\* the step of a validate_dataset call: it raises and leaves every file as
\* it is, naming the missing and the extra columns, or it returns and the
\* report holds status pass and the counts of the data
ValidateStep ==
    (proc[1].pc = "idle" /\ proc'[1].op = "validate_dataset")
    => LET schema == proc'[1].payload[1].schema
           e == proc'[1].payload[1].raised
       IN  IF ChecksFail(fs, schema)
           THEN /\ proc'[1].result = "raised"
                /\ fs' = fs
                /\ (has_data(fs, PersistDir)
                      /\ DOMAIN read_table(fs, PersistDir).cols # DOMAIN schema)
                   => /\ e.missing = DOMAIN schema
                                       \ DOMAIN read_table(fs, PersistDir).cols
                      /\ e.extra = DOMAIN read_table(fs, PersistDir).cols
                                     \ DOMAIN schema
           ELSE /\ proc'[1].result = "ok"
                /\ DOMAIN fs' = DOMAIN fs \cup {ReportPath}
                /\ \A q \in DOMAIN fs \ {ReportPath} : fs'[q] = fs[q]
                /\ fs'[ReportPath] =
                     << <<"{">>, <<"status", "pass">>,
                        <<"row_count", read_table(fs, PersistDir).rows>>,
                        <<"column_count",
                          Cardinality(DOMAIN read_table(fs, PersistDir).cols)>>,
                        <<"}">> >>

\* C18: validate_dataset writes validation_report.json exactly when every
\* check passes: with the data file absent, a column set that differs from
\* the schema's (the missing and the extra columns named in the error), an
\* unknown or unmatched declared type, a null in a non-nullable column or a
\* violated min/max constraint it raises and neither creates nor modifies
\* the report; otherwise it writes status pass with the row and column
\* counts of the data.
C18_ReportOnlyOnPass == [][ValidateStep]_vars

\* a call raised for data that lacks a column of the schema and has a
\* column the schema does not name, and the report of an earlier call is
\* still what it was
C18_Witness ==
    /\ proc[1].pc = "done"
    /\ proc[1].op = "validate_dataset"
    /\ proc[1].result = "raised"
    /\ proc[1].payload[1].raised.missing # {}
    /\ proc[1].payload[1].raised.extra # {}
    /\ Cur(fs, ReportPath) = {StaleReport}

---------------------------------------------------------------------------
(* engine/evaluate.py: the quality and drift maps of evaluate_dataset.     *)
(* A statistic is a set: empty for None, else the one value.  What pandas  *)
(* computes from a series (isna, nunique, mean, std, min, max) is given    *)
(* with the series.                                                        *)

Abs(x) == IF x < 0 THEN 0 - x ELSE x

StatNames == {"mean", "std", "min", "max"}

DriftFields ==
    {"mean_drift", "std_drift", "min_drift", "max_drift",
     "missing_ratio_drift", "cardinality_drift"}

\* lines 44-63: the quality entry of a column
quality_entry(series) ==
    [missing_ratio |-> series.missing_ratio,
     cardinality |-> series.cardinality,
     stats |-> [n \in StatNames |->
                  IF series.numeric /\ ~series.all_null
                  THEN {series.stats[n]} ELSE None]]

\* lines 84-89
stat_drift(cur_val, prior_val) ==
    IF cur_val # None /\ prior_val # None
    THEN {Abs((CHOOSE x \in cur_val : TRUE) - (CHOOSE y \in prior_val : TRUE))}
    ELSE None

\* a drift entry with zeros where no prior value is there
zero_drift == [f \in DriftFields |-> {0}]

\* lines 106-110: no prior stats for this column or no prior profile
null_drift == [f \in DriftFields |-> None]

\* lines 81-104: the column is in the prior profile
column_drift(q, prior_col) ==
    ("mean_drift" :> stat_drift(q.stats["mean"], prior_col.stats["mean"]))
    @@ ("std_drift" :> stat_drift(q.stats["std"], prior_col.stats["std"]))
    @@ ("min_drift" :> stat_drift(q.stats["min"], prior_col.stats["min"]))
    @@ ("max_drift" :> stat_drift(q.stats["max"], prior_col.stats["max"]))
    @@ ("missing_ratio_drift" :>
          IF prior_col.missing_ratio # None
          THEN {Abs(q.missing_ratio - (CHOOSE y \in prior_col.missing_ratio : TRUE))}
          ELSE None)
    @@ ("cardinality_drift" :>
          IF prior_col.cardinality # None
          THEN {Abs(q.cardinality - (CHOOSE y \in prior_col.cardinality : TRUE))}
          ELSE None)

\* lines 67-76; the prior profile is a set: empty when the file is not there
dataset_drift(tbl, prior) ==
    IF prior = {}
    THEN [row_count_drift |-> None, column_count_drift |-> None]
    ELSE LET pp == CHOOSE x \in prior : TRUE
         IN  [row_count_drift |->
                 IF pp.row_count # None
                 THEN {Abs(tbl.rows - (CHOOSE y \in pp.row_count : TRUE))}
                 ELSE None,
              column_count_drift |->
                 IF pp.column_count # None
                 THEN {Abs(Cardinality(DOMAIN tbl.cols)
                           - (CHOOSE y \in pp.column_count : TRUE))}
                 ELSE None]

\* lines 39-119: the report
drift_report(tbl, prior) ==
    LET quality == [c \in DOMAIN tbl.cols |-> quality_entry(tbl.cols[c])]
        prior_cols == IF prior = {} THEN <<>>
                      ELSE (CHOOSE x \in prior : TRUE).columns
    IN  [row_count |-> tbl.rows,
         column_count |-> Cardinality(DOMAIN tbl.cols),
         dataset_drift |-> dataset_drift(tbl, prior),
         quality |-> quality,
         drift |-> [c \in DOMAIN tbl.cols |->
                      IF prior # {} /\ c \in DOMAIN prior_cols
                      THEN column_drift(quality[c], prior_cols[c])
                      ELSE null_drift]]

\* lines 21-26: the prior profile of the run directory, if it is there
read_prior_profile(f, run_dir) ==
    IF Path(run_dir, "prior_profile.json") \in DOMAIN f
    THEN {Get(f[Path(run_dir, "prior_profile.json")], "profile")}
    ELSE {}

\* evaluate_dataset with its report
evaluate_table(p, run_dir) ==
    LET ok == has_data(fs, run_dir)
    IN  /\ fs' = IF ok
                 THEN WriteFile(fs, Path(run_dir, "evaluation_report.json"),
                         << <<"{">>,
                            <<"report", drift_report(read_table(fs, run_dir),
                                           read_prior_profile(fs, run_dir))>>,
                            <<"}">> >>)
                 ELSE fs
        /\ proc' = [proc EXCEPT ![p] =
                      Completed("evaluate_dataset", "", run_dir, ok)]

\* one call per run of the model
call_evaluate_table(p, run_dir) ==
    /\ proc[p].pc = "idle"
    /\ orch[p].stage = "none"
    /\ evaluate_table(p, run_dir)
    /\ UNCHANGED <<dirs, now, orch>>


\* series of the model: numeric or not, with 0..Rows nulls; missing_ratio
\* is counted in nulls, cardinality in values
SeriesOf(numeric, nulls, st) ==
    [numeric |-> numeric, all_null |-> nulls = Rows,
     missing_ratio |-> nulls, cardinality |-> Rows - nulls,
     stats |-> [n \in StatNames |->
                  CASE n = "mean" -> st[1] [] n = "std" -> st[2]
                    [] n = "min" -> st[3] [] OTHER -> st[4]]]

EvalSeries ==
    {SeriesOf(numeric, nulls, st) :
        numeric \in BOOLEAN, nulls \in 0..Rows,
        st \in {<<2, 1, 1, 3>>, <<3, 0, 3, 3>>}}

EvalTables ==
    {[rows |-> Rows,
      cols |-> [c \in C |-> IF c = "amount" THEN a
                            ELSE SeriesOf(TRUE, 0, <<1, 0, 1, 1>>)]] :
        C \in {{"amount"}, {"amount", "id"}}, a \in EvalSeries}

\* columns of a prior profile: statistics there, not there, or in part
PriorColumns ==
    {[missing_ratio |-> m, cardinality |-> k, stats |-> st] :
        m \in {None, {0}}, k \in {None, {2}},
        st \in {[n \in StatNames |-> None],
                [n \in StatNames |-> {1}],
                [n \in StatNames |-> IF n = "mean" THEN None ELSE {1}]}}

PriorProfiles ==
    {[row_count |-> r, column_count |-> k, columns |-> cols] :
        r \in {None, {5}}, k \in {None, {1}},
        cols \in {<<>>} \cup {[c \in {n} |-> pc] :
                                n \in {"amount", "old"}, pc \in PriorColumns}}

EvalReportPath == Path(PersistDir, "evaluation_report.json")

InitEvaluate ==
    /\ \E D \in {<<>>} \cup {WriteFile(<<>>, Path(PersistDir, "data.parquet"),
                                       <<<<"table", t>>>>) : t \in EvalTables},
          P \in {<<>>} \cup {WriteFile(<<>>, Path(PersistDir, "prior_profile.json"),
                                << <<"{">>, <<"source_version", "v0">>,
                                   <<"profile", pp>>, <<"}">> >>) :
                                pp \in PriorProfiles} :
          fs = D @@ P
    /\ dirs = {PersistDir}
    /\ now = 0
    /\ proc = [p \in Procs |-> IdleProc]
    /\ orch = [p \in Procs |-> NoRun]

NextEvaluate == call_evaluate_table(1, PersistDir)

SpecEvaluate == InitEvaluate /\ [][NextEvaluate]_vars

\* the absolute difference of two statistics, none when one is not there
AbsDiff(a, b) == {Abs(x - y) : x \in a, y \in b}

\* the report an evaluate_dataset call wrote in this step
ReportComplete ==
    (proc[1].pc = "idle" /\ proc'[1].op = "evaluate_dataset"
       /\ proc'[1].result = "ok")
    => LET rep == Get(fs'[EvalReportPath], "report")
           tbl == read_table(fs, PersistDir)
           prior == read_prior_profile(fs, PersistDir)
       IN  /\ DOMAIN rep.quality = DOMAIN tbl.cols
           /\ DOMAIN rep.drift = DOMAIN tbl.cols
           /\ \A c \in DOMAIN tbl.cols : DOMAIN rep.drift[c] = DriftFields
           /\ prior = {}
              => /\ \A c \in DOMAIN tbl.cols, f \in DriftFields :
                       rep.drift[c][f] = {}
                 /\ rep.dataset_drift
                      = [row_count_drift |-> {}, column_count_drift |-> {}]
           /\ \A pp \in prior, c \in DOMAIN tbl.cols :
                 IF c \notin DOMAIN pp.columns
                 THEN \A f \in DriftFields : rep.drift[c][f] = {}
                 ELSE LET q == rep.quality[c]
                          pc == pp.columns[c]
                      IN  /\ rep.drift[c]["mean_drift"]
                               = AbsDiff(q.stats["mean"], pc.stats["mean"])
                          /\ rep.drift[c]["std_drift"]
                               = AbsDiff(q.stats["std"], pc.stats["std"])
                          /\ rep.drift[c]["min_drift"]
                               = AbsDiff(q.stats["min"], pc.stats["min"])
                          /\ rep.drift[c]["max_drift"]
                               = AbsDiff(q.stats["max"], pc.stats["max"])
                          /\ rep.drift[c]["missing_ratio_drift"]
                               = AbsDiff({q.missing_ratio}, pc.missing_ratio)
                          /\ rep.drift[c]["cardinality_drift"]
                               = AbsDiff({q.cardinality}, pc.cardinality)

\* C19: in the evaluation report every column of the data has a quality
\* entry and all six drift fields; without prior_profile.json every
\* per-column drift field and both dataset-level drift fields are null;
\* with a prior profile a column absent from it has six null drift fields
\* and a column present in it has, per statistic, the absolute difference
\* of the current and the prior value when both are there, null otherwise.
C19_DriftFields == [][ReportComplete]_vars

\* a report was written against a prior profile that has the column
\* "amount" with a mean and lacks the column "id"
C19_Witness ==
    /\ proc[1].pc = "done"
    /\ proc[1].op = "evaluate_dataset"
    /\ proc[1].result = "ok"
    /\ \E pp \in read_prior_profile(fs, PersistDir) :
          /\ "amount" \in DOMAIN pp.columns
          /\ pp.columns["amount"].stats["mean"] # {}
    /\ LET rep == Get(fs[EvalReportPath], "report")
       IN  /\ "id" \in DOMAIN rep.drift
           /\ rep.drift["id"]["mean_drift"] = {}
           /\ rep.drift["amount"]["mean_drift"] # {}


-----------------------------------------------------------------------------
(* engine/generate.py: the generator with its seed, its per-column streams
   and its table.  A 32-bit word is kept as two 16-bit halves. *)

\* rows of a generated table: dataset.yaml row_count is 0 or GenRows
GenRows == 3

Word(hi, lo) == [hi |-> hi, lo |-> lo]

\* (a + b) % 2**32
Add32(a, b) ==
    LET lo == a.lo + b.lo
        hi == a.hi + b.hi + (lo \div 65536)
    IN  Word(hi % 65536, lo % 65536)

\* int.from_bytes(sha256(name)[:4], "big") of the column names of the model
deterministic_col_hash(name) ==
    CASE name = "id" -> Word(42337, 17703)
      [] name = "account_id" -> Word(29595, 2362)
      [] name = "amount" -> Word(53048, 55644)
      [] name = "is_fraud" -> Word(24533, 36258)

\* int.from_bytes(sha256("<dataset>:<version>")[:8], "big") % 2**32
sha256_fold32(dataset_name, version) ==
    CASE dataset_name = "d1" /\ version = "v1" -> Word(23869, 12483)
      [] dataset_name = "d1" /\ version = "v2" -> Word(44591, 15656)
      [] dataset_name = "d2" /\ version = "v1" -> Word(19019, 58353)
      [] dataset_name = "d2" /\ version = "v2" -> Word(13965, 26594)

\* a seed taken from the two last components of the run directory
derive_seed_from_run_path(dataset_dir, run_dir) ==
    sha256_fold32(run_dir[1], run_dir[2])

\* _derive_seed: basename(dataset_dir) and basename(run_dir)
derive_seed(dataset_dir, run_dir) == sha256_fold32(dataset_dir, run_dir[2])

\* np.random.RandomState(seed): the state of a generator whose draws are a
\* function of the seed and of the draws made before; a small congruential
\* generator stands for MT19937
RandomState(seed) == (seed.hi + 31 * seed.lo) % 65537

\* the next state of the stream, which is also the number drawn
draw(rs) == (75 * rs + 74) % 65537

\* rs.uniform(1.0, 500.0, size=n), rounded: n draws
RECURSIVE uniform(_, _)
uniform(rs, n) ==
    IF n = 0 THEN [vals |-> <<>>, rs |-> rs]
    ELSE LET s == draw(rs)
             rest == uniform(s, n - 1)
         IN  [vals |-> <<{1 + (s % 500)}>> \o rest.vals, rs |-> rest.rs]

\* rs.choice(a, size=n) over an array of `count` values starting at `first`
RECURSIVE choice(_, _, _, _)
choice(rs, first, count, n) ==
    IF n = 0 THEN [vals |-> <<>>, rs |-> rs]
    ELSE LET s == draw(rs)
             rest == choice(s, first, count, n - 1)
         IN  [vals |-> <<{first + (s % count)}>> \o rest.vals, rs |-> rest.rs]

\* n_accounts = min(5000, rows // 10)
n_accounts(rows) == IF rows \div 10 < 5000 THEN rows \div 10 ELSE 5000

\* rs.choice raises ValueError on an empty array
choice_raises(name, rows) == name = "account_id" /\ n_accounts(rows) = 0

swap(x, i, j) == [x EXCEPT ![i] = x[j], ![j] = x[i]]

\* the shuffle of rs.permutation: for i = n-1 down to 1, swap x[i] with
\* x[j], j drawn from 0..i (positions are 1-based here)
RECURSIVE shuffle(_, _, _)
shuffle(rs, x, i) ==
    IF i < 1 THEN [vals |-> x, rs |-> rs]
    ELSE LET s == draw(rs)
         IN  shuffle(s, swap(x, i + 1, (s % (i + 1)) + 1), i - 1)

\* rs.permutation(n)
permutation(rs, n) == shuffle(rs, [k \in 1..n |-> k], n - 1)

\* int(round(pct/100 * n)): round() of Python rounds a half to the even
\* neighbour
round_ratio(pct, n) ==
    LET q == (pct * n) \div 100
        r == (pct * n) % 100
    IN  IF r > 50 \/ (r = 50 /\ q % 2 = 1) THEN q + 1 ELSE q

\* _generate_column for the names of the model; a cell is the set of its
\* value, the empty set when the value is missing
generate_column(rs, name, rows) ==
    CASE name = "id" -> [vals |-> [i \in 1..rows |-> {i}], rs |-> rs]
      [] name = "account_id" -> choice(rs, 100000, n_accounts(rows), rows)
      [] name = "amount" -> uniform(rs, rows)
      [] name = "is_fraud" -> [vals |-> [i \in 1..rows |-> {0}], rs |-> rs]

\* lines 239-247: the fraud labels are 1 at the first k positions of a
\* permutation
fraud_labels(rs, rows, rate) ==
    LET k == round_ratio(rate, rows)
        perm == permutation(rs, rows)
        idx == {perm.vals[i] : i \in 1..k}
    IN  [vals |-> [i \in 1..rows |-> IF i \in idx THEN {1} ELSE {0}],
         rs |-> perm.rs]

\* a missingness that cuts ratio * n down instead of rounding it
apply_missingness_floor(rs, arr, ratio) ==
    LET n == Len(arr)
        k == (ratio * n) \div 100
    IN  IF ratio <= 0 \/ k <= 0 THEN arr
        ELSE LET perm == permutation(rs, n)
                 idx == {perm.vals[i] : i \in 1..k}
             IN  [i \in 1..n |-> IF i \in idx THEN {} ELSE arr[i]]

\* _apply_missingness
apply_missingness(rs, arr, ratio) ==
    LET n == Len(arr)
        k == round_ratio(ratio, n)
    IN  IF ratio <= 0 \/ k <= 0 THEN arr
        ELSE LET perm == permutation(rs, n)
                 idx == {perm.vals[i] : i \in 1..k}
             IN  [i \in 1..n |-> IF i \in idx THEN {} ELSE arr[i]]

\* sorted() of the column names
sorted_names(names) ==
    SelectSeq(<<"account_id", "amount", "id", "is_fraud">>,
              LAMBDA c : c \in Range(names))

\* _extract_columns: the keys of a mapping sorted, a list as it is
extract_columns(schema_cfg) ==
    IF schema_cfg.mapping THEN sorted_names(schema_cfg.names)
    ELSE schema_cfg.names

\* the exception the loop raises at a column: the empty choice of
\* account_id, the fraud column without a rate
column_raises(name, rows, evo) ==
    IF choice_raises(name, rows) THEN "ValueError"
    ELSE IF name = "is_fraud" /\ evo.fraud_rate = None THEN "KeyError"
    ELSE ""

\* lines 232-254 for one column: None when the column raises
generated_column(seed, name, rows, evo) ==
    LET rs_col == RandomState(Add32(seed, deterministic_col_hash(name)))
        col == generate_column(rs_col, name, rows)
        lab == IF name = "is_fraud" /\ evo.fraud_rate # None
               THEN fraud_labels(col.rs, rows,
                                 CHOOSE r \in evo.fraud_rate : TRUE)
               ELSE col
    IN  IF column_raises(name, rows, evo) # "" THEN None
        ELSE IF name \in DOMAIN evo.missingness
             THEN {apply_missingness(lab.rs, lab.vals, evo.missingness[name])}
             ELSE {lab.vals}

GenRaised(error) == [raised |-> error, columns |-> <<>>, data |-> <<>>]

\* lines 224-257: the table of a call, or the exception it raises
generated_table(dataset_dir, configs, run_dir) ==
    LET columns == extract_columns(configs.schema)
        rows == configs.rows
        seed == derive_seed(dataset_dir, run_dir)
        cols == [i \in 1..Len(columns) |->
                   generated_column(seed, columns[i], rows, configs.evolution)]
    IN  IF rows <= 0 THEN GenRaised("ValueError")
        ELSE IF \E i \in 1..Len(columns) : cols[i] = None
        THEN LET first == CHOOSE i \in 1..Len(columns) :
                              /\ cols[i] = None
                              /\ \A j \in 1..(i - 1) : cols[j] # None
             IN  GenRaised(column_raises(columns[first], rows, configs.evolution))
        ELSE [raised |-> "", columns |-> columns,
              data |-> [i \in 1..Len(columns) |-> CHOOSE c \in cols[i] : TRUE]]

\* generate_dataset with its table; the arguments and the outcome of the
\* call are kept as its payload
generate_table(p, dataset_dir, configs, run_dir, parquet_ok) ==
    LET t == generated_table(dataset_dir, configs, run_dir)
    IN  /\ fs' = IF t.raised = ""
                 THEN write_dataframe(fs, run_dir, <<<<"table", t>>>>, parquet_ok)
                 ELSE fs
        /\ proc' = [proc EXCEPT ![p] =
                      [Completed("generate_dataset", "", run_dir, t.raised = "")
                         EXCEPT !.payload =
                           <<[dataset_dir |-> dataset_dir, configs |-> configs,
                              parquet |-> parquet_ok, out |-> t]>>]]

\* one invocation per process
call_generate_table(p, dataset_dir, configs, run_dir, parquet_ok) ==
    /\ proc[p].pc = "idle"
    /\ orch[p].stage = "none"
    /\ generate_table(p, dataset_dir, configs, run_dir, parquet_ok)
    /\ UNCHANGED <<dirs, now, orch>>

\* run directories of the generator: two datasets, two versions
GenRunDirs == {<<"d1", "v1">>, <<"d1", "v2">>, <<"d2", "v1">>}

\* configurations: schema.yaml columns as a list or as a mapping,
\* dataset.yaml row_count, evolution.yaml fraud rate and missingness (in
\* percent)
GenConfigs ==
    {[schema |-> sc, rows |-> n,
      evolution |-> [fraud_rate |-> fr, missingness |-> ms]] :
        sc \in {[mapping |-> FALSE, names |-> <<"id", "amount", "is_fraud">>],
                [mapping |-> FALSE, names |-> <<"is_fraud", "amount">>],
                [mapping |-> TRUE, names |-> <<"is_fraud", "amount">>]},
        n \in {0, GenRows},
        fr \in {None, {50}},
        ms \in {<<>>, [c \in {"amount", "is_fraud"} |-> 50]}}

InitGenerate ==
    /\ fs = <<>>
    /\ dirs = GenRunDirs
    /\ now = 0
    /\ proc = [p \in Procs |-> IdleProc]
    /\ orch = [p \in Procs |-> NoRun]

NextGenerate ==
    \E p \in Procs, d \in Datasets, c \in GenConfigs, r \in GenRunDirs,
       parquet_ok \in BOOLEAN :
        call_generate_table(p, d, c, r, parquet_ok)

SpecGenerate == InitGenerate /\ [][NextGenerate]_vars

\* the invocation of process p is over
Generated(p) == proc[p].pc = "done" /\ proc[p].op = "generate_dataset"

\* the file the invocation of p wrote
GeneratedFile(p) ==
    Path(proc[p].run_dir,
         IF proc[p].payload[1].parquet THEN "data.parquet" ELSE "data.csv")

\* two invocations with the same dataset name, version and configuration
SameInputs(p, q) ==
    /\ proc[p].payload[1].dataset_dir = proc[q].payload[1].dataset_dir
    /\ proc[p].run_dir[2] = proc[q].run_dir[2]
    /\ proc[p].payload[1].configs = proc[q].payload[1].configs

\* C20: two invocations of generate_dataset with the same dataset name, the
\* same version (last component of run_dir) and the same configuration end
\* the same way and produce the same table: the same columns in the same
\* order, the same values, the same missing cells and fraud labels; when
\* they wrote two files, each file holds that table
C20_GenerationDeterministic ==
    \A p \in Procs : \A q \in Procs :
        (Generated(p) /\ Generated(q) /\ SameInputs(p, q))
        => /\ proc[p].payload[1].out = proc[q].payload[1].out
           /\ proc[p].result = proc[q].result
           /\ (proc[p].result = "ok" /\ GeneratedFile(p) # GeneratedFile(q))
                => /\ {GeneratedFile(p), GeneratedFile(q)} \subseteq DOMAIN fs
                   /\ fs[GeneratedFile(p)] = <<<<"table", proc[p].payload[1].out>>>>
                   /\ fs[GeneratedFile(q)] = fs[GeneratedFile(p)]

\* two invocations in different run directories, same dataset name and
\* version, with random values, fraud labels and missing cells in the table
C20_Witness ==
    /\ Generated(1) /\ Generated(2) /\ SameInputs(1, 2)
    /\ proc[1].run_dir # proc[2].run_dir
    /\ proc[1].result = "ok"
    /\ LET t == proc[1].payload[1].out
       IN  /\ t.columns = <<"amount", "is_fraud">>
           /\ \E i \in 1..Len(t.data[1]) : t.data[1][i] = {}
           /\ \E i \in 1..Len(t.data[2]) : t.data[2][i] = {1}

\* C21: two invocations of generate_dataset with the same dataset directory
\* and the same configuration, on run directories with different names,
\* produce equal tables
C21_RunDirNameIrrelevant ==
    \A p \in Procs : \A q \in Procs :
        (/\ Generated(p) /\ Generated(q)
         /\ proc[p].payload[1].dataset_dir = proc[q].payload[1].dataset_dir
         /\ proc[p].payload[1].configs = proc[q].payload[1].configs
         /\ proc[p].run_dir[2] # proc[q].run_dir[2])
        => proc[p].payload[1].out = proc[q].payload[1].out

\* the column `name` of a generated table
ColumnOf(t, name) ==
    t.data[CHOOSE i \in 1..Len(t.columns) : t.columns[i] = name]

\* the positions of a column that hold the cell v
CellsWith(col, v) == {i \in 1..Len(col) : col[i] = v}

\* C22: a generated fraud column over n rows, with the fraud rate r, has
\* exactly round(r * n) rows marked 1 and every other row marked 0, also
\* when a missingness ratio is configured for the column
C22_FraudCount ==
    \A p \in Procs :
        (/\ Generated(p) /\ proc[p].result = "ok"
         /\ "is_fraud" \in Range(proc[p].payload[1].out.columns))
        => LET c == proc[p].payload[1].configs
               col == ColumnOf(proc[p].payload[1].out, "is_fraud")
               k == round_ratio(CHOOSE r \in c.evolution.fraud_rate : TRUE, c.rows)
           IN  /\ Len(col) = c.rows
               /\ Cardinality(CellsWith(col, {1})) = k
               /\ Cardinality(CellsWith(col, {0})) = c.rows - k

-----------------------------------------------------------------------------
(* engine/generate.py: the configuration resolvers.  A configured scalar is
   a record of its YAML kind and its value in hundredths; an optional field
   is the empty set or the set of its value. *)

Scalar(kind, h) == [kind |-> kind, h |-> h]

\* int(x): an integer as it is, a float truncated towards zero, a text that
\* is not a number raises
int_raises(x) == x.kind = "text"
int_of(x) == IF x.h >= 0 THEN x.h \div 100 ELSE -((-x.h) \div 100)

\* float(x), in hundredths
float_raises(x) == x.kind = "text"
float_of(x) == x.h

\* the result of a resolver: the exception it raises or its value
Resolved(error, value) == [error |-> error, value |-> value]

\* _extract_row_count: row_count, else rows; int() of it; positive
extract_row_count(dataset_cfg) ==
    LET rc == IF dataset_cfg.row_count # None THEN dataset_cfg.row_count
              ELSE dataset_cfg.rows
    IN  IF rc = None THEN Resolved("KeyError", 0)
        ELSE LET x == CHOOSE v \in rc : TRUE
             IN  IF int_raises(x) THEN Resolved("ValueError", 0)
                 ELSE IF int_of(x) <= 0 THEN Resolved("ValueError", 0)
                 ELSE Resolved("", int_of(x))

\* a call of a resolver: its argument and its result are the payload
resolver_call(p, name, arg, out) ==
    /\ proc[p].pc = "idle"
    /\ orch[p].stage = "none"
    /\ proc' = [proc EXCEPT ![p] =
                  [Completed(name, "", <<"", "">>, out.error = "")
                     EXCEPT !.payload = <<[arg |-> arg, out |-> out]>>]]
    /\ UNCHANGED <<fs, dirs, now, orch>>

call_extract_row_count(p, dataset_cfg) ==
    resolver_call(p, "_extract_row_count", dataset_cfg,
                  extract_row_count(dataset_cfg))

\* configured row counts: integers, floats with and without a fraction, a
\* text
RowScalars ==
    {Scalar("int", 100 * n) : n \in {-1, 0, 1, GenRows}}
      \cup {Scalar("float", h) : h \in {-150, 0, 50, 250, 100 * GenRows}}
      \cup {Scalar("text", 0)}

DatasetCfgs ==
    {[row_count |-> a, rows |-> b] :
        a \in {None} \cup {{x} : x \in RowScalars},
        b \in {None} \cup {{x} : x \in RowScalars}}

InitResolver ==
    /\ fs = <<>>
    /\ dirs = {}
    /\ now = 0
    /\ proc = [p \in Procs |-> IdleProc]
    /\ orch = [p \in Procs |-> NoRun]

NextRowCount == \E c \in DatasetCfgs : call_extract_row_count(1, c)

SpecRowCount == InitResolver /\ [][NextRowCount]_vars

\* the configured value: row_count, or rows when row_count is not given
ConfiguredRowCount(dataset_cfg) ==
    IF dataset_cfg.row_count # None THEN dataset_cfg.row_count
    ELSE dataset_cfg.rows

\* a positive integer
PositiveInteger(x) == x.kind # "text" /\ x.h % 100 = 0 /\ x.h > 0

\* C24: _extract_row_count returns a row count only for a configured value
\* that is a positive integer; a value that is not positive or not an
\* integer raises, and so does a missing one
C24_RowCountPositiveInteger ==
    (proc[1].pc = "done" /\ proc[1].op = "_extract_row_count")
    => LET rc == ConfiguredRowCount(proc[1].payload[1].arg)
       IN  (rc = None \/ \E x \in rc : ~PositiveInteger(x))
           => proc[1].result = "raised"

\* the value of an optional field that is there
The(opt) == CHOOSE x \in opt : TRUE

\* lines 72-82: the configured fraud rate, by the branch the code takes
configured_fraud_rate(evo_cfg) ==
    IF evo_cfg.weekly_changes # None /\ The(evo_cfg.weekly_changes) # <<>>
    THEN The(evo_cfg.weekly_changes)[1].fraud_rate
    ELSE IF evo_cfg.fraud_rate # None THEN evo_cfg.fraud_rate
    ELSE IF evo_cfg.fraud # None THEN The(evo_cfg.fraud).rate
    ELSE None

\* a ratio that float() refuses or that is outside [0, 1]
ratio_raises(x) == float_raises(x) \/ float_of(x) < 0 \/ float_of(x) > 100

\* _extract_evolution: the fraud rate and the missingness ratios, in
\* hundredths
extract_evolution(evo_cfg) ==
    LET fr == configured_fraud_rate(evo_cfg)
        ms == evo_cfg.missingness
    IN  IF fr # None /\ ratio_raises(The(fr))
        THEN Resolved("ValueError", [fraud_rate |-> None, missingness |-> <<>>])
        ELSE IF \E c \in DOMAIN ms : ratio_raises(ms[c])
        THEN Resolved("ValueError", [fraud_rate |-> None, missingness |-> <<>>])
        ELSE Resolved("", [fraud_rate |-> {float_of(x) : x \in fr},
                           missingness |-> [c \in DOMAIN ms |-> float_of(ms[c])]])

call_extract_evolution(p, evo_cfg) ==
    resolver_call(p, "_extract_evolution", evo_cfg, extract_evolution(evo_cfg))

\* configured rates: inside and outside [0, 1], and a text
RateScalars(h) == {Scalar("float", h), Scalar("float", 150), Scalar("text", 0)}

\* evolution.yaml: each of the three places of the fraud rate absent, empty
\* or filled with a rate of its own
EvolutionCfgs ==
    {[weekly_changes |-> w, fraud_rate |-> t, fraud |-> f, missingness |-> ms] :
        w \in {None, {<<>>}, {<<[fraud_rate |-> None]>>}}
                \cup {{<<[fraud_rate |-> {x}]>>} : x \in RateScalars(10)},
        t \in {None} \cup {{x} : x \in RateScalars(20)},
        f \in {None, {[rate |-> None]}}
                \cup {{[rate |-> {x}]} : x \in RateScalars(30)},
        ms \in {<<>>} \cup {[c \in {"amount"} |-> x] : x \in RateScalars(40)}}

NextEvolution == \E c \in EvolutionCfgs : call_extract_evolution(1, c)

SpecEvolution == InitResolver /\ [][NextEvolution]_vars

\* the rates the three conventions supply, in the order of the claim
SuppliedRates(evo_cfg) ==
    << IF evo_cfg.weekly_changes # None /\ The(evo_cfg.weekly_changes) # <<>>
       THEN The(evo_cfg.weekly_changes)[1].fraud_rate ELSE None,
       evo_cfg.fraud_rate,
       IF evo_cfg.fraud # None THEN The(evo_cfg.fraud).rate ELSE None >>

\* the rate of the first convention that supplies one
FirstSupplied(evo_cfg) ==
    LET s == SuppliedRates(evo_cfg)
    IN  IF s[1] # None THEN s[1] ELSE IF s[2] # None THEN s[2] ELSE s[3]

\* C25: the fraud rate _extract_evolution resolves is the value of the
\* first of weekly_changes[0].fraud_rate, fraud_rate, fraud.rate that
\* supplies one; it is absent only when none does; a rate outside [0, 1] is
\* rejected
C25_FirstMatchWins ==
    (proc[1].pc = "done" /\ proc[1].op = "_extract_evolution")
    => LET evo == proc[1].payload[1].arg
           out == proc[1].payload[1].out
           first == FirstSupplied(evo)
       IN  /\ (first # None /\ ratio_raises(The(first))) => out.error # ""
           /\ out.error = ""
                => out.value.fraud_rate = {float_of(x) : x \in first}

-----------------------------------------------------------------------------
(* engine/generate.py: generate_dataset from the configuration documents as
   they are loaded *)

RequiredConfigs == {"dataset.yaml", "schema.yaml", "evolution.yaml"}

\* _extract_columns raises: no "columns", or an empty mapping or list
columns_raises(schema_cfg) ==
    IF ~schema_cfg.declared THEN "KeyError"
    ELSE IF schema_cfg.names = <<>> THEN "ValueError"
    ELSE ""

\* lines 224-227: the four resolvers in the order of the code; `missing`
\* are the documents that are absent or None
resolve_configs(raw) ==
    LET rows == extract_row_count(raw.dataset)
        evo == extract_evolution(raw.evolution)
    IN  IF raw.missing # {} THEN Resolved("KeyError", <<>>)
        ELSE IF columns_raises(raw.schema) # ""
        THEN Resolved(columns_raises(raw.schema), <<>>)
        ELSE IF rows.error # "" THEN Resolved(rows.error, <<>>)
        ELSE IF evo.error # "" THEN Resolved(evo.error, <<>>)
        ELSE Resolved("", [schema |-> raw.schema, rows |-> rows.value,
                           evolution |-> evo.value])

\* lines 224-257 from the loaded documents
raw_table(dataset_dir, raw, run_dir) ==
    LET r == resolve_configs(raw)
    IN  IF r.error # "" THEN GenRaised(r.error)
        ELSE generated_table(dataset_dir, r.value, run_dir)

\* a generator that writes the columns it has before a later column raises
written_files_early(f, run_dir, t, parquet_ok) ==
    write_dataframe(f, run_dir, <<<<"table", t>>>>, parquet_ok)

\* line 260 is reached only when nothing raised before
written_files(f, run_dir, t, parquet_ok) ==
    IF t.raised = ""
    THEN write_dataframe(f, run_dir, <<<<"table", t>>>>, parquet_ok)
    ELSE f

generate_raw(p, dataset_dir, raw, run_dir, parquet_ok) ==
    LET t == raw_table(dataset_dir, raw, run_dir)
    IN  /\ fs' = written_files(fs, run_dir, t, parquet_ok)
        /\ proc' = [proc EXCEPT ![p] =
                      [Completed("generate_dataset", "", run_dir, t.raised = "")
                         EXCEPT !.payload =
                           <<[dataset_dir |-> dataset_dir, configs |-> raw,
                              parquet |-> parquet_ok, out |-> t]>>]]

call_generate_raw(p, dataset_dir, raw, run_dir, parquet_ok) ==
    /\ proc[p].pc = "idle"
    /\ orch[p].stage = "none"
    /\ generate_raw(p, dataset_dir, raw, run_dir, parquet_ok)
    /\ UNCHANGED <<dirs, now, orch>>

\* the documents of the model
RawDatasets ==
    {[row_count |-> a, rows |-> None] :
        a \in {None, {Scalar("int", 0)}, {Scalar("int", 100)},
               {Scalar("int", 100 * GenRows)}, {Scalar("int", 1000)},
               {Scalar("float", 250)}, {Scalar("text", 0)}}}
      \cup {[row_count |-> None, rows |-> {Scalar("int", 100 * GenRows)}]}

RawSchemas ==
    {[declared |-> FALSE, mapping |-> FALSE, names |-> <<>>],
     [declared |-> TRUE, mapping |-> FALSE, names |-> <<>>],
     [declared |-> TRUE, mapping |-> TRUE, names |-> <<>>],
     [declared |-> TRUE, mapping |-> FALSE, names |-> <<"id", "amount", "is_fraud">>],
     [declared |-> TRUE, mapping |-> TRUE, names |-> <<"is_fraud", "amount">>],
     [declared |-> TRUE, mapping |-> FALSE, names |-> <<"amount", "account_id">>]}

RawEvolutions ==
    {[weekly_changes |-> None, fraud_rate |-> t, fraud |-> None,
      missingness |-> ms] :
        t \in {None, {Scalar("float", 50)}, {Scalar("float", 150)}},
        ms \in {<<>>,
                [c \in {"amount"} |-> Scalar("float", 0)],
                [c \in {"amount"} |-> Scalar("float", 40)],
                [c \in {"amount"} |-> Scalar("int", 100)],
                [c \in {"amount"} |-> Scalar("text", 0)],
                [c \in {"amount", "id"} |-> Scalar("float", 50)]}}

RawConfigs ==
    {[missing |-> m, dataset |-> d, schema |-> s, evolution |-> e] :
        m \in {{}} \cup {{k} : k \in RequiredConfigs},
        d \in RawDatasets, s \in RawSchemas, e \in RawEvolutions}

\* the run directory is empty or holds the files of an earlier attempt
InitRaw ==
    /\ fs \in {<<>>,
               WriteFile(snapshot_files(<<>>, PersistDir, "cA"),
                         Path(PersistDir, "data.csv"), Table("generated"))}
    /\ dirs = {PersistDir}
    /\ now = 0
    /\ proc = [p \in Procs |-> IdleProc]
    /\ orch = [p \in Procs |-> NoRun]

NextRaw ==
    \E raw \in RawConfigs, parquet_ok \in BOOLEAN :
        call_generate_raw(1, "d1", raw, PersistDir, parquet_ok)

SpecRaw == InitRaw /\ [][NextRaw]_vars

\* C23: in a generated table every column with a configured missingness
\* ratio r has exactly round(r * n) missing positions over its n rows, and
\* a column without a configured ratio has none
C23_MissingCount ==
    (Generated(1) /\ proc[1].result = "ok")
    => LET t == proc[1].payload[1].out
           ms == proc[1].payload[1].configs.evolution.missingness
       IN  \A i \in 1..Len(t.columns) :
               LET n == Len(t.data[i])
                   missing == CellsWith(t.data[i], {})
               IN  /\ n > 0
                   /\ Cardinality(missing) =
                        IF t.columns[i] \in DOMAIN ms
                        THEN round_ratio(ms[t.columns[i]].h, n)
                        ELSE 0

\* the ratio 0.4 over 10 rows: 4 missing amounts, no missing id
C23_Witness ==
    /\ Generated(1) /\ proc[1].result = "ok"
    /\ LET t == proc[1].payload[1].out
           ms == proc[1].payload[1].configs.evolution.missingness
       IN  /\ t.columns = <<"id", "amount", "is_fraud">>
           /\ "amount" \in DOMAIN ms /\ ms["amount"].h = 40
           /\ Len(t.data[2]) = 10
           /\ Cardinality(CellsWith(t.data[2], {})) = 4
           /\ CellsWith(t.data[1], {}) = {}

\* the configuration faults the claim names: a required document missing,
\* no or empty columns, a missing or invalid row count, a fraud rate or a
\* missingness ratio that is not a number in [0, 1], a fraud column without
\* a fraud rate
ConfigurationFault(raw) ==
    \/ raw.missing # {}
    \/ ~raw.schema.declared \/ raw.schema.names = <<>>
    \/ ConfiguredRowCount(raw.dataset) = None
    \/ \E x \in ConfiguredRowCount(raw.dataset) : x.kind = "text" \/ x.h < 100
    \/ \E x \in FirstSupplied(raw.evolution) : ratio_raises(x)
    \/ \E c \in DOMAIN raw.evolution.missingness :
           ratio_raises(raw.evolution.missingness[c])
    \/ "is_fraud" \in Range(raw.schema.names)
         /\ FirstSupplied(raw.evolution) = None

\* a call of generate_dataset that raises leaves every file as it was
RaisesBeforeWriting ==
    (proc[1].pc = "idle" /\ Generated(1)' /\ proc'[1].result = "raised")
    => /\ fs' = fs
       /\ DirFiles(fs', PersistDir) = DirFiles(fs, PersistDir)

\* C26: when generate_dataset raises because of the configuration, it
\* raises before it writes: the files of the run directory and their
\* contents are those of before the call
C26_ConfigErrorWritesNothing == [][RaisesBeforeWriting]_vars

\* a call that raised at the fraud column, the last of the checks, in a run
\* directory that holds files
C26_Witness ==
    /\ Generated(1) /\ proc[1].result = "raised"
    /\ proc[1].payload[1].out.raised = "KeyError"
    /\ LET raw == proc[1].payload[1].configs
       IN  /\ ConfigurationFault(raw)
           /\ raw.missing = {}
           /\ raw.schema.names = <<"id", "amount", "is_fraud">>
           /\ raw.dataset.row_count = {Scalar("int", 1000)}
           /\ raw.evolution.fraud_rate = None
    /\ Path(PersistDir, "data.csv") \in DOMAIN fs

\* the columns the schema resolves to: the names sorted for a mapping, as
\* given for a list
ResolvedColumns(schema_cfg) ==
    IF schema_cfg.mapping THEN sorted_names(schema_cfg.names)
    ELSE schema_cfg.names

\* a valid configuration: the documents are there, the schema has columns,
\* the row count is a positive integer, the ratios are in [0, 1], a fraud
\* column comes with a fraud rate
ValidConfiguration(raw) ==
    /\ ~ConfigurationFault(raw)
    /\ \A x \in ConfiguredRowCount(raw.dataset) : PositiveInteger(x)

\* C28: for a valid configuration with the row count n, whatever the column
\* names are, generate_dataset returns and the table it wrote has n rows
\* and the resolved schema columns in the resolved order
C28_ValidConfigGenerates ==
    (Generated(1) /\ ValidConfiguration(proc[1].payload[1].configs))
    => LET raw == proc[1].payload[1].configs
           t == proc[1].payload[1].out
           n == int_of(The(ConfiguredRowCount(raw.dataset)))
       IN  /\ proc[1].result = "ok"
           /\ t.columns = ResolvedColumns(raw.schema)
           /\ \A i \in 1..Len(t.columns) : Len(t.data[i]) = n
           /\ fs[GeneratedFile(1)] = <<<<"table", t>>>>

-----------------------------------------------------------------------------
(* engine/kaggle.py: upload_to_kaggle.  The environment of a call: the
   client library is installed, the slug is well formed, the credentials
   file is there, the authentication works, the remote dataset exists. *)

meta_path(run_dir) == Path(run_dir, "dataset-metadata.json")

\* run_dir / "kaggle_upload", a directory
upload_dir(run_dir) == Path(run_dir, "kaggle_upload")

\* the names a file can have inside upload_dir
UploadNames == {"data.parquet", "data.csv", "final_metadata.json",
                "dataset-metadata.json"}

\* upload_dir / name
Staged(run_dir, name) ==
    Path(run_dir,
         CASE name = "data.parquet" -> "kaggle_upload/data.parquet"
           [] name = "data.csv" -> "kaggle_upload/data.csv"
           [] name = "final_metadata.json" -> "kaggle_upload/final_metadata.json"
           [] name = "dataset-metadata.json" -> "kaggle_upload/dataset-metadata.json")

\* the files inside upload_dir
StagedFiles(f, run_dir) ==
    {Staged(run_dir, n) : n \in UploadNames} \cap DOMAIN f

\* lines 17-61: the checks before anything is written
upload_refused(f, run_dir, env) ==
    \/ ~env.api
    \/ run_dir \notin dirs
    \/ ~env.slug
    \/ final_metadata_path(run_dir) \notin DOMAIN f
    \/ (has_parquet(f, run_dir) /\ has_csv(f, run_dir))
    \/ ~has_data(f, run_dir)
    \/ ~env.credentials
    \/ ~IsJson(f[final_metadata_path(run_dir)])
    \/ \E k \in {"dataset", "finalized_at_utc"} :
           ~HasKey(f[final_metadata_path(run_dir)], k)

\* lines 77-85: the metadata descriptor
descriptor(f, run_dir) ==
    << <<"{">>, <<"id", "slug">>,
       <<"title", Get(f[final_metadata_path(run_dir)], "dataset")>>, <<"}">> >>

\* lines 102-111: upload_dir emptied and made again, the data file, the
\* manifest and the descriptor copied into it
staged_upload(f, run_dir) ==
    LET data == IF has_parquet(f, run_dir) THEN "data.parquet" ELSE "data.csv"
        kept == [q \in DOMAIN f \ StagedFiles(f, run_dir) |-> f[q]]
        names == {data, "final_metadata.json", "dataset-metadata.json"}
    IN  [q \in DOMAIN kept \cup {Staged(run_dir, n) : n \in names} |->
            IF q \in DOMAIN kept THEN kept[q]
            ELSE f[Path(run_dir, CHOOSE n \in names : Staged(run_dir, n) = q)]]

\* a cleanup that leaves the descriptor in the run directory
upload_cleanup_partial(f, run_dir) ==
    [q \in DOMAIN f \ StagedFiles(f, run_dir) |-> f[q]]

\* lines 143-147: the staged files, the directory (see upload_attempt) and
\* the descriptor are removed
upload_cleanup(f, run_dir) ==
    [q \in DOMAIN f \ (StagedFiles(f, run_dir) \cup {meta_path(run_dir)}) |-> f[q]]

\* lines 1-111: the call up to its first upload attempt
upload_begin(p, run_dir, env) ==
    /\ proc[p].pc = "idle"
    /\ orch[p].stage = "none"
    /\ LET call == [NewCall("upload_to_kaggle", "", run_dir, NoFile)
                      EXCEPT !.payload = <<env>>]
           described == WriteFile(fs, meta_path(run_dir), descriptor(fs, run_dir))
       IN  IF upload_refused(fs, run_dir, env)
           THEN /\ proc' = [proc EXCEPT ![p] = Raised(call)]
                /\ UNCHANGED <<fs, dirs>>
           ELSE IF ~env.authenticated
           THEN /\ proc' = [proc EXCEPT ![p] = Raised(call)]
                /\ fs' = described
                /\ UNCHANGED dirs
           ELSE /\ proc' = [proc EXCEPT ![p] = [call EXCEPT !.pc = "upload"]]
                /\ fs' = staged_upload(described, run_dir)
                /\ dirs' = dirs \cup {upload_dir(run_dir)}
    /\ UNCHANGED <<now, orch>>

\* lines 127-147: one _do_upload_once; `off` counts the attempts made.  The
\* first failure is followed by the retry, the second by RuntimeError; a
\* success is followed by the cleanup
upload_attempt(p, ok) ==
    /\ proc[p].pc = "upload"
    /\ proc[p].op = "upload_to_kaggle"
    /\ LET pr == [proc[p] EXCEPT !.off = @ + 1]
       IN  IF ok
           THEN /\ proc' = [proc EXCEPT ![p] = Returned(pr)]
                /\ fs' = upload_cleanup(fs, pr.run_dir)
                /\ dirs' = dirs \ {upload_dir(pr.run_dir)}
           ELSE /\ proc' = [proc EXCEPT ![p] =
                              IF proc[p].off = 0 THEN pr ELSE Raised(pr)]
                /\ UNCHANGED <<fs, dirs>>
    /\ UNCHANGED <<now, orch>>

UploadEnvs ==
    [api : BOOLEAN, slug : BOOLEAN, credentials : BOOLEAN,
     authenticated : BOOLEAN, exists : BOOLEAN]

\* a run directory that is finalized or not, with one or two data files,
\* with or without the staged files of an upload that failed
InitUpload ==
    /\ \E k \in {Finalized, Ready, DirKind("cA", TRUE, TRUE, TRUE, TRUE, TRUE),
                 DirKind("cA", FALSE, TRUE, TRUE, TRUE, TRUE)},
          left \in BOOLEAN :
          LET f == PreparedDir(<<>>, PersistDir, k)
          IN  /\ fs = IF left
                      THEN WriteFile(WriteFile(f, meta_path(PersistDir), <<>>),
                                     Staged(PersistDir, "data.csv"), Table("stale"))
                      ELSE f
              /\ dirs = IF left THEN {PersistDir, upload_dir(PersistDir)}
                        ELSE {PersistDir}
    /\ now = 0
    /\ proc = [p \in Procs |-> IdleProc]
    /\ orch = [p \in Procs |-> NoRun]

NextUpload ==
    \/ \E env \in UploadEnvs : upload_begin(1, PersistDir, env)
    \/ \E ok \in BOOLEAN : upload_attempt(1, ok)

SpecUpload == InitUpload /\ [][NextUpload]_vars

\* what an upload leaves in the run directory: the descriptor, the upload
\* directory and its files
StagedLeft(f, d, run_dir) ==
    (StagedFiles(f, run_dir) \cup ({meta_path(run_dir)} \cap DOMAIN f))
      \cup ({upload_dir(run_dir)} \cap d)

UploadExits == proc[1].pc # "done" /\ proc'[1].pc = "done"
                 /\ proc'[1].op = "upload_to_kaggle"

UploadStep ==
    /\ (proc[1].pc = "idle" /\ proc'[1].op = "upload_to_kaggle"
          /\ final_metadata_path(PersistDir) \notin DOMAIN fs)
       => (proc'[1].result = "raised" /\ fs' = fs /\ dirs' = dirs /\ proc'[1].off = 0)
    /\ proc'[1].off <= 2
    /\ (UploadExits /\ proc'[1].result = "ok")
       => (proc'[1].off \in {1, 2} /\ StagedLeft(fs', dirs', PersistDir) = {})
    /\ (UploadExits /\ proc'[1].off = 2 /\ proc'[1].result = "raised")
       => /\ upload_dir(PersistDir) \in dirs'
          /\ meta_path(PersistDir) \in DOMAIN fs'
          /\ \A n \in {"final_metadata.json", "dataset-metadata.json"} :
                 Staged(PersistDir, n) \in DOMAIN fs'
          /\ \E n \in {"data.parquet", "data.csv"} :
                 Staged(PersistDir, n) \in DOMAIN fs'
    /\ (UploadExits /\ proc'[1].result = "raised" /\ proc[1].pc = "upload")
       => proc'[1].off = 2

\* C27: upload_to_kaggle raises without an upload attempt and without
\* writing when final_metadata.json is absent; it makes at most two upload
\* attempts; when it returns, an attempt succeeded and kaggle_upload and
\* dataset-metadata.json are gone from the run directory; when both
\* attempts failed it raises and the staged files are still there
C27_UploadRetryAndCleanup == [][UploadStep]_vars

\* a first attempt failed, the retry succeeded, the staging is gone
C27_Witness ==
    /\ proc[1].pc = "done" /\ proc[1].op = "upload_to_kaggle"
    /\ proc[1].result = "ok" /\ proc[1].off = 2
    /\ StagedLeft(fs, dirs, PersistDir) = {}
    /\ final_metadata_path(PersistDir) \in DOMAIN fs

-----------------------------------------------------------------------------
(* The stages invoked again and again on one run directory: generate,
   validate, finalize *)

\* schema.yaml of the run: amount is a float, not nullable, at most 2
StageSchema == [c \in {"amount"} |-> ColDef("float", FALSE, None, {2})]

\* the table a configuration generates: the one of the run passes, the one
\* of a changed configuration is above the max
StageTable(configs) ==
    [rows |-> Rows,
     cols |-> [c \in {"amount"} |->
                 IF configs = "cA" THEN ColStat("float64", FALSE, 1, 2, FALSE)
                 ELSE ColStat("float64", FALSE, 2, 3, FALSE)]]

\* generate_dataset invoked on the run directory, whatever it holds, with
\* the configuration of the run or with a changed one: the table of this
\* generation replaces the data file of the same format
stage_generate(p, configs, run_dir, tbl, parquet_ok) ==
    /\ CanCall(p)
    /\ fs' = write_dataframe(fs, run_dir, <<<<"table", tbl>>>>, parquet_ok)
    /\ proc' = [proc EXCEPT ![p] =
                  Completed("generate_dataset", configs, run_dir, TRUE)]
    /\ UNCHANGED <<dirs, now, orch>>

\* validate_dataset invoked on the run directory, whatever it holds
stage_validate(p, schema, run_dir) ==
    /\ CanCall(p)
    /\ validate_table(p, schema, run_dir)
    /\ UNCHANGED <<dirs, now, orch>>

\* the run directory after snapshot_run_context and an evaluation
InitStages ==
    /\ fs = WriteFile(snapshot_files(<<>>, PersistDir, "cA"),
                      Path(PersistDir, "evaluation_report.json"),
                      evaluation_report(<<>>, PersistDir))
    /\ dirs = {PersistDir}
    /\ now = 0
    /\ proc = [p \in Procs |-> IdleProc]
    /\ orch = [p \in Procs |-> NoRun]

NextStages ==
    \/ \E c \in {"cA", "cChanged"}, parquet_ok \in BOOLEAN :
          stage_generate(1, c, PersistDir, StageTable(c), parquet_ok)
    \/ stage_validate(1, StageSchema, PersistDir)
    \/ call_persist_artifacts(1, "cA", PersistDir)
    \/ EngineStep(1)

SpecStages == InitStages /\ [][NextStages]_vars

FinalCreated ==
    /\ final_metadata_path(PersistDir) \notin DOMAIN fs
    /\ final_metadata_path(PersistDir) \in DOMAIN fs'

FinalizedOnValidData ==
    FinalCreated
    => /\ fs'[ReportPath] = pass_report(read_table(fs', PersistDir))
       /\ validate_checks(StageSchema, read_table(fs', PersistDir)) = NoError

\* C29: when persist_artifacts creates final_metadata.json, the validation
\* report of the run directory is the complete report of a validation that
\* passed on the data file as it is now: the data passes the checks and the
\* report is the one written for it
C29_NoStaleValidation == [][FinalizedOnValidData]_vars

=============================================================================
